---- MODULE Spec2Model ----
(***************************************************************************)
(* CDR discovery and aggregation engine of odango:                         *)
(*   - endpoint catalog, endpoint selection and URL building               *)
(*     (services/cdr_discovery.go, kept in src/services/results_store.go)  *)
(*   - one discovery run: query every selected endpoint, aggregate,        *)
(*     deduplicate, count                                                  *)
(*   - the in-memory results cache with its per-Store expiry goroutine     *)
(* Strings that the code takes apart (endpoint names, URL templates, URLs) *)
(* are sequences of tokens; all other strings are atoms.                   *)
(***************************************************************************)
EXTENDS Integers, Sequences, FiniteSets, TLC

VARIABLES
    pc,          \* position of the modelled caller: which call has been made
    criteria,    \* the CDRSearchCriteria the caller passes
    cfg,         \* the CDREndpointConfig handed to a direct call (0: none)
    selected,    \* value returned by selectEndpointsToQuery
    url,         \* value returned by buildEndpointURL
    epResult,    \* value returned by queryEndpoint
    result,      \* the CDRDiscoveryResult a discovery run builds
    idx,         \* position of the run's loop in endpointsToQuery (held in selected)
    queryLog,    \* history: the endpoint names queryEndpoint was called with, in order
    results,     \* ResultsStore.results: session id -> stored result
    ttl,         \* ResultsStore.ttl
    now,         \* the clock
    tasks,       \* the expiry goroutines started by Store, in the order started
    getOut,      \* what the last Get returned, with the history of its id at that time
    hist,        \* history: the last Store, Delete, Clear or expiry of each session id
    lastStore,   \* history: time, ttl and value of the last Store of each session id
    db,          \* the committed content of the discovery database
    tx,          \* the StoreDiscoverySession call of each caller with its transaction,
                 \* and what the caller's last call returned
    storeLog,    \* history: the results whose StoreDiscoverySession committed, in order
    runs,        \* the search requests being handled, each with its discovery run
    dedupArg,    \* the slice handed to a direct call of deduplicateCDRs
    dedupOut,    \* what deduplicateCDRs returned, call after call
    reply,       \* what the network answered to the direct call of queryEndpoint
    record,      \* the FlexibleCDR the direct calls of its methods are made on
    got,         \* what the direct calls on record returned, by method name
    mu,          \* ResultsStore.mu: the goroutine holding the write lock (0: none)
                 \* and the goroutines holding the read lock
    heap,        \* the map objects allocated by make, by address
    rs,          \* the ResultsStore struct: the address in results, and ttl
    gs           \* the goroutines: the callers of the cache's methods and the
                 \* goroutines Store started, each with its call and position

funVars == <<cfg, url, epResult>>
runVars == <<result, idx, queryLog>>
cacheVars == <<results, ttl, now, tasks, getOut, hist, lastStore>>
dbVars == <<db, tx, storeLog>>
dedupVars == <<dedupArg, dedupOut>>
\* the state outside the engine and the cache
callVars == <<reply, record, got>>
lockVars == <<mu, heap, rs, gs>>
outerVars == <<dbVars, runs, dedupVars, callVars, lockVars>>

vars == <<pc, criteria, selected, funVars, runVars, cacheVars, outerVars>>

----------------------------------------------------------------------------
(* Small helpers on sequences *)

Range(s) == {s[i] : i \in 1..Len(s)}

\* strings.Contains(name, tok) on a token sequence
Contains(s, tok) == \E i \in 1..Len(s) : s[i] = tok

\* m[k] = v on a Go map
Put(m, k, v) == [x \in DOMAIN m \cup {k} |-> IF x = k THEN v ELSE m[x]]

\* delete(m, k) on a Go map
Remove(m, k) == [x \in DOMAIN m \ {k} |-> m[x]]

EmptyMap == [x \in {} |-> <<>>]

----------------------------------------------------------------------------
(* Results cache: ResultsStore *)

SessionIDs == {"s1", "s2"}
StoredResults == {"r1", "r2"}

\* the values NewResultsStore is given as time to live, in clock ticks
TTLs == {1, 2}

\* ResultsStore.Store, the write of the map
storeResult(m, sessionID, r) == Put(m, sessionID, r)

\* ResultsStore.Get
getResult(m, sessionID) ==
    IF sessionID \in DOMAIN m THEN [found |-> TRUE, val |-> m[sessionID]]
    ELSE [found |-> FALSE, val |-> "nil"]

\* as deleteResult, removing nothing
deleteResultNothing(m, sessionID) == m

\* ResultsStore.Delete
deleteResult(m, sessionID) == Remove(m, sessionID)

\* ResultsStore.Clear
clearResults(m) == EmptyMap

\* the cache before any call, for the specifications that do not use it
NoCache ==
    /\ results = EmptyMap
    /\ ttl = 0
    /\ now = 0
    /\ tasks = <<>>
    /\ getOut = <<>>
    /\ hist = <<>>
    /\ lastStore = <<>>

\* no database opened, no request being handled, no direct call of
\* deduplicateCDRs, for the specifications that do not use them
NoCalls ==
    /\ reply = <<>>
    /\ record = <<>>
    /\ got = <<>>

\* no goroutine at work in the cache, for the specifications in which every
\* method of the cache is one step
NoLocking ==
    /\ mu = <<>>
    /\ heap = <<>>
    /\ rs = <<>>
    /\ gs = <<>>

NoOuter ==
    /\ NoCalls
    /\ NoLocking
    /\ db = <<>>
    /\ tx = <<>>
    /\ storeLog = <<>>
    /\ runs = <<>>
    /\ dedupArg = <<>>
    /\ dedupOut = <<>>

----------------------------------------------------------------------------
(* Endpoint catalog *)

\* as the catalog, with the global_cdrs entry lost
GetSupportedEndpointsNoGlobal ==
    << [Name |-> <<"domain", "_", "cdrs">>,
        URLTemplate |-> <<"/ns-api/v2/domains/", "{domain}", "/cdrs">>,
        RequiredParams |-> <<"domain">>, SupportsRaw |-> TRUE],
       [Name |-> <<"domain", "_", "count">>,
        URLTemplate |-> <<"/ns-api/v2/domains/", "{domain}", "/cdrs", "/count">>,
        RequiredParams |-> <<"domain">>, SupportsRaw |-> FALSE] >>

GetSupportedEndpoints ==
    << [Name |-> <<"global", "_", "cdrs">>,
        URLTemplate |-> <<"/ns-api/v2", "/cdrs">>,
        RequiredParams |-> <<>>, SupportsRaw |-> TRUE],
       [Name |-> <<"domain", "_", "cdrs">>,
        URLTemplate |-> <<"/ns-api/v2/domains/", "{domain}", "/cdrs">>,
        RequiredParams |-> <<"domain">>, SupportsRaw |-> TRUE],
       [Name |-> <<"user", "_", "cdrs">>,
        URLTemplate |-> <<"/ns-api/v2/domains/", "{domain}", "/users/", "{user}", "/cdrs">>,
        RequiredParams |-> <<"domain", "user">>, SupportsRaw |-> TRUE],
       [Name |-> <<"site", "_", "cdrs">>,
        URLTemplate |-> <<"/ns-api/v2/domains/", "{domain}", "/sites/", "{site}", "/cdrs">>,
        RequiredParams |-> <<"domain", "site">>, SupportsRaw |-> TRUE],
       [Name |-> <<"global", "_", "count">>,
        URLTemplate |-> <<"/ns-api/v2", "/cdrs", "/count">>,
        RequiredParams |-> <<>>, SupportsRaw |-> FALSE],
       [Name |-> <<"domain", "_", "count">>,
        URLTemplate |-> <<"/ns-api/v2/domains/", "{domain}", "/cdrs", "/count">>,
        RequiredParams |-> <<"domain">>, SupportsRaw |-> FALSE],
       [Name |-> <<"user", "_", "count">>,
        URLTemplate |-> <<"/ns-api/v2/domains/", "{domain}", "/users/", "{user}", "/cdrs", "/count">>,
        RequiredParams |-> <<"domain", "user">>, SupportsRaw |-> FALSE] >>

GlobalCdrsName == <<"global", "_", "cdrs">>
DomainCdrsName == <<"domain", "_", "cdrs">>

----------------------------------------------------------------------------
(* Search criteria *)

NoDate == <<>>

\* the criteria a caller may pass (all fields optional)
CriteriaSet ==
    [Domain : {"", "a.com"},
     User : {"", "u100"},
     Site : {"", "hq"},
     CallID : {"", "call-7"},
     StartDate : {NoDate, <<2024, 1, 5>>},
     EndDate : {NoDate},
     Start : {0, 20},
     Limit : {0, 5},
     Raw : BOOLEAN,
     OriginatingNumber : {""},
     TerminatingNumber : {"", "5551234"},
     AnyPhoneNumber : {""}]

----------------------------------------------------------------------------
(* Endpoint selector *)

\* as hasRequiredParams, with the "site" case of the switch missing
hasRequiredParamsNoSite(endpoint, c) ==
    \A i \in 1..Len(endpoint.RequiredParams) :
        LET required == endpoint.RequiredParams[i] IN
            /\ (required = "domain" => c.Domain # "")
            /\ (required = "user" => c.User # "")

RECURSIVE hasRequiredParamsFrom(_, _, _)
hasRequiredParamsFrom(endpoint, c, i) ==
    IF i > Len(endpoint.RequiredParams) THEN TRUE
    ELSE LET required == endpoint.RequiredParams[i] IN
        IF required = "domain" /\ c.Domain = "" THEN FALSE
        ELSE IF required = "user" /\ c.User = "" THEN FALSE
        ELSE IF required = "site" /\ c.Site = "" THEN FALSE
        ELSE hasRequiredParamsFrom(endpoint, c, i + 1)

hasRequiredParams(endpoint, c) == hasRequiredParamsFrom(endpoint, c, 1)

\* first loop of selectEndpointsToQuery: catalog order, count endpoints skipped
RECURSIVE selectLoop(_, _, _, _)
selectLoop(endpoints, c, i, sel) ==
    IF i > Len(endpoints) THEN sel
    ELSE IF Contains(endpoints[i].Name, "count")
         THEN selectLoop(endpoints, c, i + 1, sel)
         ELSE IF hasRequiredParams(endpoints[i], c)
              THEN selectLoop(endpoints, c, i + 1, Append(sel, endpoints[i]))
              ELSE selectLoop(endpoints, c, i + 1, sel)

\* second loop: the first catalog entry named global_cdrs, if any
RECURSIVE fallbackLoop(_, _)
fallbackLoop(endpoints, i) ==
    IF i > Len(endpoints) THEN <<>>
    ELSE IF endpoints[i].Name = GlobalCdrsName THEN <<endpoints[i]>>
         ELSE fallbackLoop(endpoints, i + 1)

selectEndpointsToQuery(c) ==
    LET endpoints == GetSupportedEndpoints
        sel == selectLoop(endpoints, c, 1, <<>>)
    IN IF Len(sel) = 0 THEN fallbackLoop(endpoints, 1) ELSE sel

----------------------------------------------------------------------------
(* Flexible records (models/cdr.go) and JSON values                       *)
(* A JSON value is tagged: [t |-> "str", s |-> ...], [t |-> "num", n |-> ] *)
(* [t |-> "null"], [t |-> "arr", a |-> <<values>>], [t |-> "obj", o |-> f] *)
(* with f a function from field names to values, or [t |-> "invalid"] for  *)
(* a body that is not JSON.                                                *)

Str(s) == [t |-> "str", s |-> s]
Null == [t |-> "null"]
Arr(items) == [t |-> "arr", a |-> items]
Obj(f) == [t |-> "obj", o |-> f]
Invalid == [t |-> "invalid"]

\* fmt.Sprintf("%v", val) for the non-string values of the model
SprintfV(val) ==
    IF val.t = "num" THEN ToString(val.n)
    ELSE IF val.t = "bool" THEN (IF val.b THEN "true" ELSE "false")
    ELSE "[...]"

GetString(f, field) ==
    IF field \in DOMAIN f.RawData /\ f.RawData[field].t # "null"
    THEN IF f.RawData[field].t = "str" THEN f.RawData[field].s
         ELSE SprintfV(f.RawData[field])
    ELSE ""

\* as GetID, without the fallback to the legacy field
GetIDModernOnly(f) == GetString(f, "id")

GetID(f) ==
    IF GetString(f, "id") # "" THEN GetString(f, "id")
    ELSE GetString(f, "cdr_id")

\* json.Marshal of the map followed by FlexibleCDR.UnmarshalJSON: the map is
\* kept as RawData, its keys are catalogued (in no particular order)
convertMapToFlexibleCDR(data) ==
    [cdr |-> [RawData |-> data, DetectedFields |-> DOMAIN data], err |-> FALSE]

\* as convertItems, without the test of the type assertion: an element that
\* is no object is converted as an empty map
RECURSIVE convertItemsUnchecked(_, _, _)
convertItemsUnchecked(items, i, cdrs) ==
    IF i > Len(items) THEN cdrs
    ELSE LET data == IF items[i].t = "obj" THEN items[i].o ELSE <<>>
         IN convertItemsUnchecked(items, i + 1, Append(cdrs, convertMapToFlexibleCDR(data).cdr))

RECURSIVE convertItems(_, _, _)
convertItems(items, i, cdrs) ==
    IF i > Len(items) THEN cdrs
    ELSE IF items[i].t = "obj"
         THEN LET r == convertMapToFlexibleCDR(items[i].o) IN
              IF r.err THEN convertItems(items, i + 1, cdrs)
              ELSE convertItems(items, i + 1, Append(cdrs, r.cdr))
         ELSE convertItems(items, i + 1, cdrs)

RECURSIVE convertAPIResponseToCDRs(_)
convertAPIResponseToCDRs(apiResponse) ==
    IF apiResponse.t = "arr"
    THEN [cdrs |-> convertItems(apiResponse.a, 1, <<>>), err |-> FALSE]
    ELSE IF apiResponse.t = "obj"
    THEN IF "data" \in DOMAIN apiResponse.o
         THEN convertAPIResponseToCDRs(apiResponse.o["data"])
         ELSE LET r == convertMapToFlexibleCDR(apiResponse.o) IN
              IF r.err THEN [cdrs |-> <<>>, err |-> TRUE]
              ELSE [cdrs |-> <<r.cdr>>, err |-> FALSE]
    ELSE [cdrs |-> <<>>, err |-> TRUE]

----------------------------------------------------------------------------
(* Query executor *)

BaseURL == "https://pbx.example.com"

\* the keys buildEndpointURL may add, in the order url.Values.Encode sorts them
SortedKeys == <<"call_id", "end", "limit", "orig_number", "raw", "start", "term_number">>

EmptyValues == [k \in Range(SortedKeys) |-> <<>>]

\* url.Values.Add
Add(params, k, v) == [params EXCEPT ![k] = Append(@, v)]

\* strings.ReplaceAll on a token sequence
ReplaceAll(path, old, new) ==
    [i \in 1..Len(path) |-> IF path[i] = old THEN new ELSE path[i]]

Pad2(n) == IF n < 10 THEN "0" \o ToString(n) ELSE ToString(n)

\* time.Format("2006-01-02") of a date <<year, month, day>>
FormatDate(d) == ToString(d[1]) \o "-" \o Pad2(d[2]) \o "-" \o Pad2(d[3])

\* the "k=v" tokens of one key, in the order the values were added
RECURSIVE encodeKey(_, _, _)
encodeKey(k, vals, i) ==
    IF i > Len(vals) THEN <<>>
    ELSE <<k \o "=" \o vals[i]>> \o encodeKey(k, vals, i + 1)

\* the "k=v" tokens of url.Values.Encode: keys sorted, and "&" between tokens
\* (the values of the model need no escaping)
RECURSIVE encodePairs(_, _)
encodePairs(params, j) ==
    IF j > Len(SortedKeys) THEN <<>>
    ELSE encodeKey(SortedKeys[j], params[SortedKeys[j]], 1) \o encodePairs(params, j + 1)

RECURSIVE joinAmp(_, _)
joinAmp(toks, i) ==
    IF i > Len(toks) THEN <<>>
    ELSE IF i = 1 THEN <<toks[1]>> \o joinAmp(toks, 2)
         ELSE <<"&", toks[i]>> \o joinAmp(toks, i + 1)

Encode(params) == joinAmp(encodePairs(params, 1), 1)

\* len(params): the number of keys that were added
LenValues(params) == Cardinality({k \in DOMAIN params : Len(params[k]) > 0})

\* the query parameters buildEndpointURL collects, with the raw flag given
buildParams(c, raw) ==
    LET p0 == EmptyValues
        p1 == IF c.Start > 0 THEN Add(p0, "start", ToString(c.Start)) ELSE p0
        p2 == IF c.Limit > 0 THEN Add(p1, "limit", ToString(c.Limit)) ELSE p1
        p3 == IF raw THEN Add(p2, "raw", "yes") ELSE p2
        p4 == IF c.StartDate # NoDate THEN Add(p3, "start", FormatDate(c.StartDate)) ELSE p3
        p5 == IF c.EndDate # NoDate THEN Add(p4, "end", FormatDate(c.EndDate)) ELSE p4
        p6 == IF c.CallID # "" THEN Add(p5, "call_id", c.CallID) ELSE p5
        p7 == IF c.OriginatingNumber # "" THEN Add(p6, "orig_number", c.OriginatingNumber) ELSE p6
        p8 == IF c.TerminatingNumber # "" THEN Add(p7, "term_number", c.TerminatingNumber) ELSE p7
    IN p8

buildURLWith(endpointConfig, c, raw) ==
    LET path1 == ReplaceAll(endpointConfig.URLTemplate, "{domain}", c.Domain)
        path2 == ReplaceAll(path1, "{user}", c.User)
        urlPath == ReplaceAll(path2, "{site}", c.Site)
        params == buildParams(c, raw)
        fullURL == <<BaseURL>> \o urlPath
    IN [url |-> IF LenValues(params) > 0 THEN fullURL \o <<"?">> \o Encode(params)
                ELSE fullURL,
        err |-> FALSE]

\* as buildEndpointURL, adding raw=yes whenever the criteria ask for it
buildEndpointURLRawUnchecked(endpointConfig, c) ==
    buildURLWith(endpointConfig, c, c.Raw)

buildEndpointURL(endpointConfig, c) ==
    buildURLWith(endpointConfig, c, endpointConfig.SupportsRaw /\ c.Raw)

\* what the network gives back to one query:
\*   kind "reqerr"  http.NewRequest fails
\*   kind "neterr"  client.Do fails (no connection, timeout)
\*   kind "http"    a response with a status and a body
NetErr == [kind |-> "neterr", status |-> 0, body |-> Invalid]
ReqErr == [kind |-> "reqerr", status |-> 0, body |-> Invalid]
Http(status, body) == [kind |-> "http", status |-> status, body |-> body]

StatusOK == 200

queryEndpoint(endpointConfig, c, resp) ==
    LET fresh == [EndpointName |-> endpointConfig.Name, URL |-> <<>>, RecordCount |-> 0,
                   Success |-> FALSE, Error |-> "", HTTPStatus |-> 0, CDRs |-> <<>>,
                   RawDataUsed |-> FALSE]
        built == buildEndpointURL(endpointConfig, c)
        withURL == [fresh EXCEPT !.URL = built.url,
                                  !.RawDataUsed = endpointConfig.SupportsRaw /\ c.Raw]
        withStatus == [withURL EXCEPT !.HTTPStatus = resp.status]
        conv == convertAPIResponseToCDRs(resp.body)
    IN  IF built.err THEN [fresh EXCEPT !.Error = "URL build error"]
        ELSE IF resp.kind = "reqerr" THEN [withURL EXCEPT !.Error = "Request creation error"]
        ELSE IF resp.kind = "neterr" THEN [withURL EXCEPT !.Error = "HTTP request error"]
        ELSE IF resp.status # StatusOK
             THEN [withStatus EXCEPT !.Error = "HTTP " \o ToString(resp.status)]
        ELSE IF resp.body.t = "invalid" THEN [withStatus EXCEPT !.Error = "JSON decode error"]
        ELSE IF conv.err THEN [withStatus EXCEPT !.Error = "CDR conversion error"]
        ELSE [withStatus EXCEPT !.CDRs = conv.cdrs, !.RecordCount = Len(conv.cdrs),
                             !.Success = TRUE]

----------------------------------------------------------------------------
(* Direct calls of the selector *)

InitSelect ==
    /\ pc = "start"
    /\ criteria \in CriteriaSet
    /\ cfg = 0
    /\ selected = <<>>
    /\ url = <<>>
    /\ epResult = <<>>
    /\ result = <<>>
    /\ idx = 0
    /\ queryLog = <<>>
    /\ NoCache
    /\ NoOuter

SelectEndpoints ==
    /\ pc = "start"
    /\ selected' = selectEndpointsToQuery(criteria)
    /\ pc' = "selected"
    /\ UNCHANGED <<criteria, funVars, runVars, cacheVars, outerVars>>

NextSelect == SelectEndpoints

SpecSelect == InitSelect /\ [][NextSelect]_vars

----------------------------------------------------------------------------
(* What the remote endpoints may answer *)

\* JSON objects the endpoints return as records
RecA == Obj([id |-> Str("rec-1")])
RecB == Obj([id |-> Str("rec-2"), domain |-> Str("a.com")])
RecC == Obj([cdr_id |-> Str("rec-3")])
RecD == Obj([cdr_id |-> Str("rec-1"), domain |-> Str("a.com")])
RecE == Obj([domain |-> Str("a.com")])

RecordPool == {RecA, RecB, RecC, RecD, RecE}

SeqsUpTo(S, n) == UNION {[1..k -> S] : k \in 0..n}

\* longest array a direct call of queryEndpoint is answered with
MaxItems == 2

\* the bodies a direct call is answered with: not JSON, a scalar, an array
\* (records and a non-object element), one object, and both wrapped in "data"
QueryBodies ==
    LET arrays == {Arr(s) : s \in SeqsUpTo({RecA, RecD, RecE, Str("x")}, MaxItems)}
        plain == {Invalid, Str("x"), RecA} \cup arrays
    IN plain \cup {Obj([data |-> RecC]), Obj([data |-> Arr(<<RecA, RecB>>)]),
                   Obj([data |-> Null])}

QueryResponses ==
    {NetErr, ReqErr} \cup {Http(st, b) : st \in {200, 201, 404}, b \in QueryBodies}

----------------------------------------------------------------------------
(* Direct calls of buildEndpointURL and queryEndpoint *)

\* the criteria of the direct calls: what the URL is built from
QueryCriteriaSet == {c \in CriteriaSet : c.User = "" /\ c.Site = ""}

InitQuery ==
    /\ pc = "start"
    /\ criteria \in QueryCriteriaSet
    /\ cfg \in Range(GetSupportedEndpoints)
    /\ selected = <<>>
    /\ url = <<>>
    /\ epResult = <<>>
    /\ result = <<>>
    /\ idx = 0
    /\ queryLog = <<>>
    /\ NoCache
    /\ NoOuter

BuildEndpointURL ==
    /\ pc = "start"
    /\ url' = buildEndpointURL(cfg, criteria).url
    /\ pc' = "built"
    /\ UNCHANGED <<criteria, cfg, selected, epResult, runVars, cacheVars, outerVars>>

QueryEndpoint ==
    /\ pc = "start"
    /\ \E resp \in QueryResponses :
           /\ reply' = resp
           /\ epResult' = queryEndpoint(cfg, criteria, resp)
    /\ pc' = "queried"
    /\ UNCHANGED <<criteria, cfg, selected, url, runVars, cacheVars,
                   dbVars, runs, dedupVars, record, got, lockVars>>

NextQuery == BuildEndpointURL \/ QueryEndpoint

SpecQuery == InitQuery /\ [][NextQuery]_vars

\* C8: the built URL carries raw=yes iff the endpoint supports raw and the
\* criteria ask for it, and RawDataUsed of a query result is true exactly when
\* raw=yes is in the URL of that query
C8_RawIffSupportedAndRequested ==
    /\ (pc = "built" =>
            (Contains(url, "raw=yes") <=> (cfg.SupportsRaw /\ criteria.Raw)))
    /\ (pc = "queried" =>
            /\ (Contains(epResult.URL, "raw=yes") <=> (cfg.SupportsRaw /\ criteria.Raw))
            /\ (epResult.RawDataUsed <=> Contains(epResult.URL, "raw=yes")))

\* a count endpoint asked with Raw set: queried, and without raw=yes
C8_Witness ==
    /\ pc = "queried"
    /\ criteria.Raw /\ ~cfg.SupportsRaw
    /\ epResult.Success
    /\ ~Contains(epResult.URL, "raw=yes") /\ ~epResult.RawDataUsed

----------------------------------------------------------------------------
(* Aggregator *)

\* as deduplicateCDRs, never recording an identity as seen
RECURSIVE dedupNoSeen(_, _)
dedupNoSeen(cdrs, i) ==
    IF i > Len(cdrs) THEN <<>>
    ELSE IF GetID(cdrs[i]) # "" THEN <<cdrs[i]>> \o dedupNoSeen(cdrs, i + 1)
         ELSE dedupNoSeen(cdrs, i + 1)

deduplicateCDRsNoSeen(cdrs) == dedupNoSeen(cdrs, 1)

\* as deduplicateCDRs, a later record replacing the one kept for its identity
RECURSIVE dedupLastWins(_, _)
dedupLastWins(cdrs, i) ==
    IF i > Len(cdrs) THEN <<>>
    ELSE IF GetID(cdrs[i]) # "" /\ ~\E j \in (i + 1)..Len(cdrs) : GetID(cdrs[j]) = GetID(cdrs[i])
         THEN <<cdrs[i]>> \o dedupLastWins(cdrs, i + 1)
         ELSE dedupLastWins(cdrs, i + 1)

deduplicateCDRsLastWins(cdrs) == dedupLastWins(cdrs, 1)

RECURSIVE dedupLoop(_, _, _, _)
dedupLoop(cdrs, i, seen, unique) ==
    IF i > Len(cdrs) THEN unique
    ELSE LET id == GetID(cdrs[i]) IN
         IF id # "" /\ id \notin seen
         THEN dedupLoop(cdrs, i + 1, seen \cup {id}, Append(unique, cdrs[i]))
         ELSE dedupLoop(cdrs, i + 1, seen, unique)

\* as deduplicateCDRs, the empty identity treated as any other
RECURSIVE dedupKeepEmpty(_, _, _, _)
dedupKeepEmpty(cdrs, i, seen, unique) ==
    IF i > Len(cdrs) THEN unique
    ELSE LET id == GetID(cdrs[i]) IN
         IF id \notin seen
         THEN dedupKeepEmpty(cdrs, i + 1, seen \cup {id}, Append(unique, cdrs[i]))
         ELSE dedupKeepEmpty(cdrs, i + 1, seen, unique)

deduplicateCDRsKeepEmpty(cdrs) == dedupKeepEmpty(cdrs, 1, {}, <<>>)

\* as deduplicateCDRs, the loop starting at the second record
deduplicateCDRsFromSecond(cdrs) == dedupLoop(cdrs, 2, {}, <<>>)

deduplicateCDRs(cdrs) == dedupLoop(cdrs, 1, {}, <<>>)

RECURSIVE sumLens(_, _)
sumLens(m, keys) ==
    IF keys = {} THEN 0
    ELSE LET k == CHOOSE x \in keys : TRUE IN Len(m[k]) + sumLens(m, keys \ {k})

\* as countTotalCDRs, with total = len(cdrs) in place of total += len(cdrs)
countTotalCDRsAssign(cdrsByEndpoint) ==
    IF DOMAIN cdrsByEndpoint = {} THEN 0
    ELSE Len(cdrsByEndpoint[CHOOSE x \in DOMAIN cdrsByEndpoint : TRUE])

countTotalCDRs(cdrsByEndpoint) == sumLens(cdrsByEndpoint, DOMAIN cdrsByEndpoint)

----------------------------------------------------------------------------
(* One discovery run: GetComprehensiveCDRs *)

DefaultLimit == 100

\* as runCriteria, the raw flag left as the caller passed it
runCriteriaRawAsPassed(c) ==
    [c EXCEPT !.Limit = IF c.Limit = 0 THEN DefaultLimit ELSE c.Limit]

\* the criteria as the run uses them: default limit, raw forced on
runCriteria(c) ==
    [[c EXCEPT !.Limit = IF c.Limit = 0 THEN DefaultLimit ELSE c.Limit]
        EXCEPT !.Raw = TRUE]

\* fmt.Sprintf("cdr_session_%d", time.Now().UnixNano()), t the clock's reading
generateSessionID(t) == "cdr_session_" \o ToString(t)

newResult(sessionID, c) ==
    [SessionID |-> sessionID, SearchCriteria |-> c, TotalCDRs |-> 0, UniqueCDRs |-> 0, EndpointResults |-> <<>>,
     AllCDRs |-> <<>>, CDRsByEndpoint |-> EmptyMap, Errors |-> <<>>]

\* fmt.Sprintf("%s: %s", endpointConfig.Name, endpointResult.Error)
ErrorString(name, err) == <<name, err>>

\* as loopBody, a failed endpoint leaving no EndpointResult behind
loopBodySkipFailed(r, endpointConfig, endpointResult) ==
    IF endpointResult.Success
    THEN [r EXCEPT !.EndpointResults = Append(@, endpointResult),
                   !.CDRsByEndpoint = IF Len(endpointResult.CDRs) > 0
                                      THEN Put(@, endpointConfig.Name, endpointResult.CDRs)
                                      ELSE @,
                   !.AllCDRs = @ \o endpointResult.CDRs]
    ELSE [r EXCEPT !.Errors = Append(@, ErrorString(endpointConfig.Name, endpointResult.Error))]

\* as loopBody, the error of a failed endpoint not added to Errors
loopBodyErrorsDropped(r, endpointConfig, endpointResult) ==
    LET r1 == [r EXCEPT !.EndpointResults = Append(@, endpointResult)] IN
    IF endpointResult.Success /\ Len(endpointResult.CDRs) > 0
    THEN [r1 EXCEPT !.CDRsByEndpoint = Put(@, endpointConfig.Name, endpointResult.CDRs),
                    !.AllCDRs = @ \o endpointResult.CDRs \o endpointResult.CDRs]
    ELSE r1

\* the body of the loop over endpointsToQuery, after queryEndpoint returned
loopBody(r, endpointConfig, endpointResult) ==
    LET r1 == [r EXCEPT !.EndpointResults = Append(@, endpointResult)]
        \* the logging block
        r2 == IF endpointResult.Success
              THEN IF Len(endpointResult.CDRs) > 0
                   THEN [r1 EXCEPT !.CDRsByEndpoint = Put(@, endpointConfig.Name, endpointResult.CDRs),
                                   !.AllCDRs = @ \o endpointResult.CDRs]
                   ELSE r1
              ELSE [r1 EXCEPT !.Errors = Append(@, ErrorString(endpointConfig.Name, endpointResult.Error))]
        r3 == IF endpointResult.Success /\ Len(endpointResult.CDRs) > 0
              THEN [r2 EXCEPT !.CDRsByEndpoint = Put(@, endpointConfig.Name, endpointResult.CDRs),
                              !.AllCDRs = @ \o endpointResult.CDRs]
              ELSE r2
        r4 == IF ~endpointResult.Success
              THEN [r3 EXCEPT !.Errors = Append(@, ErrorString(endpointConfig.Name, endpointResult.Error))]
              ELSE r3
    IN r4

\* the statements after the loop
aggregate(r) ==
    LET all == deduplicateCDRs(r.AllCDRs) IN
    [r EXCEPT !.AllCDRs = all,
              !.UniqueCDRs = Len(all),
              !.TotalCDRs = countTotalCDRs(r.CDRsByEndpoint)]

\* the loop over endpointsToQuery, resps[i] being what the i-th endpoint answers
RECURSIVE runLoop(_, _, _, _)
runLoop(r, endpointsToQuery, resps, i) ==
    IF i > Len(endpointsToQuery) THEN r
    ELSE runLoop(loopBody(r, endpointsToQuery[i],
                          queryEndpoint(endpointsToQuery[i], r.SearchCriteria, resps[i])),
                 endpointsToQuery, resps, i + 1)

\* GetComprehensiveCDRs from its first statement to its return, sessionID being
\* what generateSessionID gives it
GetComprehensiveCDRs(sessionID, c, resps) ==
    aggregate(runLoop(newResult(sessionID, runCriteria(c)),
                      selectEndpointsToQuery(runCriteria(c)), resps, 1))

\* longest array an endpoint answers a run with
MaxRecs == 3
\* most records all endpoints together answer one run with
RecordBudget == 3

RECURSIVE sumRecordCounts(_, _)
sumRecordCounts(eps, i) ==
    IF i > Len(eps) THEN 0
    ELSE (IF eps[i].Success THEN eps[i].RecordCount ELSE 0) + sumRecordCounts(eps, i + 1)

RecordsSoFar(r) == sumRecordCounts(r.EndpointResults, 1)

\* what an endpoint may answer in a run: no connection or a timeout, a status
\* other than 200, a body that is not JSON, or an array of records
RunResponses(left) ==
    {NetErr, Http(404, Invalid), Http(200, Invalid)}
        \cup {Http(200, Arr(s)) : s \in SeqsUpTo(RecordPool, IF left < MaxRecs THEN left ELSE MaxRecs)}

RunCriteriaSet ==
    {c \in CriteriaSet :
        /\ c.CallID = "" /\ c.StartDate = NoDate /\ c.Start = 0 /\ c.TerminatingNumber = ""
        /\ (c.Limit = 0 <=> ~c.Raw)}

InitRun ==
    /\ pc = "start"
    /\ criteria \in RunCriteriaSet
    /\ cfg = 0
    /\ selected = <<>>
    /\ url = <<>>
    /\ epResult = <<>>
    /\ result = <<>>
    /\ idx = 0
    /\ queryLog = <<>>
    /\ NoCache
    /\ NoOuter

\* GetComprehensiveCDRs up to the loop over the selected endpoints
StartRun ==
    /\ pc = "start"
    /\ result' = newResult(generateSessionID(now), runCriteria(criteria))
    /\ selected' = selectEndpointsToQuery(runCriteria(criteria))
    /\ idx' = 1
    /\ pc' = "loop"
    /\ UNCHANGED <<criteria, funVars, queryLog, cacheVars, outerVars>>

\* one iteration of the loop: the endpoint is queried and its result taken in
QueryNext ==
    /\ pc = "loop"
    /\ idx <= Len(selected)
    /\ \E resp \in RunResponses(RecordBudget - RecordsSoFar(result)) :
           result' = loopBody(result, selected[idx],
                              queryEndpoint(selected[idx], result.SearchCriteria, resp))
    /\ queryLog' = Append(queryLog, selected[idx].Name)
    /\ idx' = idx + 1
    /\ UNCHANGED <<pc, criteria, selected, funVars, cacheVars, outerVars>>

\* the loop is over: deduplicate, count, return
FinishRun ==
    /\ pc = "loop"
    /\ idx > Len(selected)
    /\ result' = aggregate(result)
    /\ pc' = "done"
    /\ UNCHANGED <<criteria, selected, funVars, idx, queryLog, cacheVars, outerVars>>

NextRun == StartRun \/ QueryNext \/ FinishRun

SpecRun == InitRun /\ [][NextRun]_vars

----------------------------------------------------------------------------
(* The results cache and its expiry goroutines                             *)
(* Every method holds the lock from its first statement to its return, so  *)
(* each is one step.  The goroutine Store starts is three steps: it reads  *)
(* rs.ttl and goes to sleep, it wakes when the time has passed, it calls   *)
(* Delete.  The clock counts units far longer than a scheduling delay: a   *)
(* goroutine that was started goes to sleep, and one whose time has come   *)
(* deletes, before the clock moves on.                                     *)

\* Store calls in one behaviour
MaxStores == 3
\* last tick of the clock
MaxTime == 3

NoStore == [at |-> 0, ttl |-> 0, val |-> "nil", any |-> FALSE]

InitCache ==
    /\ pc = "start"
    /\ criteria = <<>>
    /\ selected = <<>>
    /\ cfg = 0
    /\ url = <<>>
    /\ epResult = <<>>
    /\ result = <<>>
    /\ idx = 0
    /\ queryLog = <<>>
    /\ results = EmptyMap
    /\ ttl \in TTLs
    /\ now = 0
    /\ tasks = <<>>
    /\ getOut = <<>>
    /\ hist = [id \in SessionIDs |-> [kind |-> "never", val |-> "nil"]]
    /\ lastStore = [id \in SessionIDs |-> NoStore]
    /\ NoOuter

engineVars == <<pc, criteria, selected, funVars, runVars>>

Store(sessionID, r) ==
    /\ Len(tasks) < MaxStores
    /\ results' = storeResult(results, sessionID, r)
    /\ tasks' = Append(tasks, [id |-> sessionID, at |-> "start", wake |-> 0])
    /\ hist' = [hist EXCEPT ![sessionID] = [kind |-> "stored", val |-> r]]
    /\ lastStore' = [lastStore EXCEPT ![sessionID] =
                        [at |-> now, ttl |-> ttl, val |-> r, any |-> TRUE]]
    /\ UNCHANGED <<engineVars, outerVars, ttl, now, getOut>>

Get(sessionID) ==
    /\ getOut' = [id |-> sessionID, out |-> getResult(results, sessionID),
                  last |-> hist[sessionID]]
    /\ UNCHANGED <<engineVars, outerVars, results, ttl, now, tasks, hist, lastStore>>

\* as Delete, stopping the expiry goroutines of the session id as well
DeleteCancelling(sessionID) ==
    /\ results' = deleteResult(results, sessionID)
    /\ tasks' = [i \in 1..Len(tasks) |->
                    IF tasks[i].id = sessionID THEN [tasks[i] EXCEPT !.at = "done"]
                    ELSE tasks[i]]
    /\ hist' = [hist EXCEPT ![sessionID] = [kind |-> "deleted", val |-> "nil"]]
    /\ UNCHANGED <<engineVars, outerVars, ttl, now, getOut, lastStore>>

Delete(sessionID) ==
    /\ results' = deleteResult(results, sessionID)
    /\ hist' = [hist EXCEPT ![sessionID] = [kind |-> "deleted", val |-> "nil"]]
    /\ UNCHANGED <<engineVars, outerVars, ttl, now, tasks, getOut, lastStore>>

Clear ==
    /\ results' = clearResults(results)
    /\ hist' = [id \in SessionIDs |-> [kind |-> "cleared", val |-> "nil"]]
    /\ UNCHANGED <<engineVars, outerVars, ttl, now, tasks, getOut, lastStore>>

\* the goroutine evaluates rs.ttl and starts time.Sleep
ExpirySleep(i) ==
    /\ tasks[i].at = "start"
    /\ tasks' = [tasks EXCEPT ![i] = [@ EXCEPT !.at = "sleep", !.wake = now + ttl]]
    /\ UNCHANGED <<engineVars, outerVars, results, ttl, now, getOut, hist, lastStore>>

\* time.Sleep is over: the goroutine calls rs.Delete(sessionID)
ExpiryDelete(i) ==
    /\ tasks[i].at = "sleep"
    /\ now >= tasks[i].wake
    /\ results' = deleteResult(results, tasks[i].id)
    /\ tasks' = [tasks EXCEPT ![i] = [@ EXCEPT !.at = "done"]]
    /\ hist' = [hist EXCEPT ![tasks[i].id] = [kind |-> "expired", val |-> "nil"]]
    /\ UNCHANGED <<engineVars, outerVars, ttl, now, getOut, lastStore>>

\* an expiry goroutine has a step to take at the present time
ExpiryPending ==
    \E i \in 1..Len(tasks) :
        \/ tasks[i].at = "start"
        \/ tasks[i].at = "sleep" /\ now >= tasks[i].wake

Tick ==
    /\ now < MaxTime
    /\ ~ExpiryPending
    /\ now' = now + 1
    /\ UNCHANGED <<engineVars, outerVars, results, ttl, tasks, getOut, hist, lastStore>>

NextCache ==
    \/ \E id \in SessionIDs, r \in StoredResults : Store(id, r)
    \/ \E id \in SessionIDs : Get(id)
    \/ \E id \in SessionIDs : Delete(id)
    \/ Clear
    \/ \E i \in 1..Len(tasks) : ExpirySleep(i)
    \/ \E i \in 1..Len(tasks) : ExpiryDelete(i)
    \/ Tick

SpecCache == InitCache /\ [][NextCache]_vars

\* C9: Get finds exactly the result most recently stored under the id when no
\* Delete of the id, Clear or expiry of the id came after that Store, and finds
\* nothing for an id never stored, or deleted, cleared or expired since
C9_GetReturnsLastStored ==
    getOut # <<>> =>
        IF getOut.last.kind = "stored"
        THEN getOut.out.found /\ getOut.out.val = getOut.last.val
        ELSE ~getOut.out.found

\* s1 was stored twice and s2 stored and deleted: Get finds the second value
C9_Witness ==
    /\ getOut # <<>>
    /\ getOut.id = "s1" /\ getOut.out.found /\ getOut.out.val = "r2"
    /\ lastStore["s1"].val = "r2"
    /\ hist["s2"].kind = "deleted"
    /\ Len(tasks) = 3
    /\ tasks[1].id = "s1" /\ tasks[2].id = "s1" /\ tasks[3].id = "s2"

\* the id was removed by Delete or Clear after its last Store
ExplicitlyRemoved(id) == hist[id].kind \in {"deleted", "cleared"}

\* C10: an entry written by Store at time t is found at every time before
\* t + TTL unless Delete or Clear removed it, and is not found at or after
\* t + TTL (once the goroutines due at that time have run); for every Store,
\* also of an id stored before
C10_EntryLivesExactlyTTL ==
    \A id \in SessionIDs :
        (lastStore[id].any /\ ~ExplicitlyRemoved(id)) =>
            /\ (now < lastStore[id].at + lastStore[id].ttl =>
                   /\ getResult(results, id).found
                   /\ getResult(results, id).val = lastStore[id].val)
            /\ (now >= lastStore[id].at + lastStore[id].ttl /\ ~ExpiryPending =>
                   ~getResult(results, id).found)

----------------------------------------------------------------------------
(* Claims on the selector *)

\* the value of the criteria field a required parameter names
ParamValue(c, p) ==
    IF p = "domain" THEN c.Domain
    ELSE IF p = "user" THEN c.User
    ELSE IF p = "site" THEN c.Site
    ELSE "?"

\* catalog positions of the entries that qualify for the criteria
EligibleIdx(c) ==
    {i \in 1..Len(GetSupportedEndpoints) :
        /\ ~Contains(GetSupportedEndpoints[i].Name, "count")
        /\ \A p \in Range(GetSupportedEndpoints[i].RequiredParams) : ParamValue(c, p) # ""}

\* the k-th smallest member of a set of positions
KthOf(S, k) == CHOOSE i \in S : Cardinality({j \in S : j < i}) = k - 1

Names(eps) == [k \in 1..Len(eps) |-> eps[k].Name]
EndpointNames(eps) == [k \in 1..Len(eps) |-> eps[k].EndpointName]

\* C1: for every criteria selectEndpointsToQuery returns at least one endpoint
C1_SelectorNeverEmpty ==
    pc = "selected" => Len(selected) >= 1

C1_Witness ==
    /\ pc = "selected"
    /\ criteria.Domain = "" /\ criteria.User = "" /\ criteria.Site = ""
    /\ Names(selected) = <<GlobalCdrsName>>

\* C2: the selection is fixed by the criteria: exactly the non-count catalog
\* entries whose required parameters are all non-empty, in catalog order; with
\* only the domain set these are global_cdrs and domain_cdrs, in that order
C2_SelectionIsEligibleInCatalogOrder ==
    pc = "selected" =>
        /\ Len(selected) = Cardinality(EligibleIdx(criteria))
        /\ \A k \in 1..Len(selected) :
               selected[k] = GetSupportedEndpoints[KthOf(EligibleIdx(criteria), k)]
        /\ (criteria.Domain # "" /\ criteria.User = "" /\ criteria.Site = ""
               => Names(selected) = <<GlobalCdrsName, DomainCdrsName>>)

C2_Witness ==
    /\ pc = "selected"
    /\ criteria.Domain = "a.com" /\ criteria.User = "" /\ criteria.Site = ""
    /\ Names(selected) = <<GlobalCdrsName, DomainCdrsName>>

----------------------------------------------------------------------------
(* Claims on a discovery run *)

\* the records of the successful endpoints, in the order they arrived
RECURSIVE concatCDRs(_, _)
concatCDRs(eps, i) ==
    IF i > Len(eps) THEN <<>>
    ELSE (IF eps[i].Success THEN eps[i].CDRs ELSE <<>>) \o concatCDRs(eps, i + 1)

Arrived == concatCDRs(result.EndpointResults, 1)

IDs(cdrs) == [k \in 1..Len(cdrs) |-> GetID(cdrs[k])]

\* the first position of an identity in a sequence of records
FirstPos(cdrs, id) ==
    CHOOSE p \in 1..Len(cdrs) :
        GetID(cdrs[p]) = id /\ \A q \in 1..(p - 1) : GetID(cdrs[q]) # id

\* C3: AllCDRs is what arrived from the successful endpoints, in endpoint order
\* and arrival order, with one record kept per identity: no two kept records
\* share an identity, each kept record is the first that arrived with its
\* identity, the kept records are in arrival order, every identity that arrived
\* is kept, and UniqueCDRs is the length of AllCDRs
C3_AllCDRsIsFirstWinsDedup ==
    pc = "done" =>
        LET all == result.AllCDRs IN
        /\ \A i, j \in 1..Len(all) : i # j => GetID(all[i]) # GetID(all[j])
        /\ \A k \in 1..Len(all) :
               /\ \E p \in 1..Len(Arrived) : GetID(Arrived[p]) = GetID(all[k])
               /\ all[k] = Arrived[FirstPos(Arrived, GetID(all[k]))]
        /\ \A k \in 1..(Len(all) - 1) :
               FirstPos(Arrived, GetID(all[k])) < FirstPos(Arrived, GetID(all[k + 1]))
        /\ \A p \in 1..Len(Arrived) :
               GetID(Arrived[p]) # "" => \E k \in 1..Len(all) : GetID(all[k]) = GetID(Arrived[p])
        /\ result.UniqueCDRs = Len(all)

\* rec-1 arrives twice from the first endpoint and once more, under its legacy
\* field name, from the second: the first one is the only record kept
C3_Witness ==
    /\ pc = "done"
    /\ Len(result.EndpointResults) >= 2
    /\ IDs(result.EndpointResults[1].CDRs) = <<"rec-1", "rec-1">>
    /\ result.EndpointResults[2].Success
    /\ Len(result.EndpointResults[2].CDRs) = 1
    /\ "cdr_id" \in result.EndpointResults[2].CDRs[1].DetectedFields
    /\ GetID(result.EndpointResults[2].CDRs[1]) = "rec-1"
    /\ result.AllCDRs = <<result.EndpointResults[1].CDRs[1]>>

\* the identities an endpoint result carries
IDsOf(ep) == IF ep.Success THEN Range(IDs(ep.CDRs)) ELSE {}

NoIdentityUnderTwoEndpoints ==
    \A i, j \in 1..Len(result.EndpointResults) :
        i # j => IDsOf(result.EndpointResults[i]) \cap IDsOf(result.EndpointResults[j]) = {}

\* C4 as stated: UniqueCDRs <= TotalCDRs, with equality iff no identity appears
\* under more than one endpoint
C4_EqualIffNoCrossEndpointDuplicate ==
    pc = "done" =>
        /\ result.UniqueCDRs <= result.TotalCDRs
        /\ (result.UniqueCDRs = result.TotalCDRs <=> NoIdentityUnderTwoEndpoints)

\* C4 as amended: UniqueCDRs <= TotalCDRs, with equality iff every record that
\* arrived has a non-empty identity and no two records that arrived, from
\* different endpoints or from the same one, share an identity
C4_EqualIffAllIdentitiesDistinct ==
    pc = "done" =>
        /\ result.UniqueCDRs <= result.TotalCDRs
        /\ (result.UniqueCDRs = result.TotalCDRs <=>
               /\ \A p \in 1..Len(Arrived) : GetID(Arrived[p]) # ""
               /\ \A p, q \in 1..Len(Arrived) :
                      p # q => GetID(Arrived[p]) # GetID(Arrived[q]))

\* one endpoint answers with the same record twice: fewer unique records than
\* total, and no identity under two endpoints
C4_Witness ==
    /\ pc = "done"
    /\ NoIdentityUnderTwoEndpoints
    /\ \E i \in 1..Len(result.EndpointResults) :
           IDs(result.EndpointResults[i].CDRs) = <<"rec-2", "rec-2">>
    /\ result.UniqueCDRs = 1
    /\ result.TotalCDRs = 2

\* the endpoint results that brought records
WithRecords == {i \in 1..Len(result.EndpointResults) :
                   result.EndpointResults[i].Success /\ result.EndpointResults[i].RecordCount > 0}

TwoEndpointsOneRec1Each ==
    /\ Cardinality(WithRecords) = 2
    /\ \A i \in WithRecords : IDs(result.EndpointResults[i].CDRs) = <<"rec-1">>

\* C5: TotalCDRs is the sum of RecordCount over the successful endpoint results,
\* duplicates included; two endpoints with one record rec-1 each give
\* UniqueCDRs = 1 and TotalCDRs = 2
C5_TotalIsSumOfSuccessfulCounts ==
    pc = "done" =>
        /\ result.TotalCDRs = sumRecordCounts(result.EndpointResults, 1)
        /\ \A i \in 1..Len(result.EndpointResults) :
               ~result.EndpointResults[i].Success => result.EndpointResults[i].RecordCount = 0
        /\ (TwoEndpointsOneRec1Each => result.UniqueCDRs = 1 /\ result.TotalCDRs = 2)

\* rec-1 from two endpoints while a third endpoint fails
C5_Witness ==
    /\ pc = "done"
    /\ TwoEndpointsOneRec1Each
    /\ \E i \in 1..Len(result.EndpointResults) : ~result.EndpointResults[i].Success
    /\ result.UniqueCDRs = 1
    /\ result.TotalCDRs = 2

ErrorsOf(name) == {k \in 1..Len(result.Errors) : result.Errors[k][1] = name}

\* C6: Errors holds one string for each failed endpoint and none for a
\* successful one (so one failed endpoint and one with 3 distinct records give
\* 1 error, 2 endpoint results, UniqueCDRs = 3 and TotalCDRs = 3)
C6_OneErrorPerFailedEndpoint ==
    pc = "done" =>
        /\ \A i \in 1..Len(result.EndpointResults) :
               Cardinality(ErrorsOf(result.EndpointResults[i].EndpointName))
                   = IF result.EndpointResults[i].Success THEN 0 ELSE 1
        /\ Len(result.Errors) =
               Cardinality({i \in 1..Len(result.EndpointResults) :
                               ~result.EndpointResults[i].Success})

\* C7: the selected endpoints are queried one after another in selection order,
\* each once, whatever the earlier queries gave, and every query leaves one
\* endpoint result: at any point of the run the queries made and the endpoint
\* results are those of the first idx - 1 selected endpoints, and at the end
\* those of all of them
C7_EveryEndpointQueriedOnceInOrder ==
    pc \in {"loop", "done"} =>
        /\ idx - 1 <= Len(selected)
        /\ queryLog = Names(SubSeq(selected, 1, idx - 1))
        /\ EndpointNames(result.EndpointResults) = queryLog
        /\ \A i, j \in 1..Len(queryLog) : i # j => queryLog[i] # queryLog[j]
        /\ (pc = "done" => Len(result.EndpointResults) = Len(selected))

\* four endpoints, the first three failing in three ways, the fourth queried
C7_Witness ==
    /\ pc = "done"
    /\ Len(selected) = 4
    /\ Len(queryLog) = 4
    /\ result.EndpointResults[1].Error = "HTTP request error"
    /\ result.EndpointResults[2].Error = "HTTP 404"
    /\ result.EndpointResults[3].Error = "JSON decode error"
    /\ result.EndpointResults[4].Success

----------------------------------------------------------------------------
(* Persistent store: DiscoveryDatabaseService                               *)
(* A table with a declared key is a map from the key to the row; a table    *)
(* whose only key is its AUTOINCREMENT id is the sequence of its rows in id *)
(* order (no statement of the service deletes from these tables, so the     *)
(* next id is the number of rows plus one).  The time columns               *)
(* (start_time, end_time, query_time_ms, last_successful_use, created_at)   *)
(* and the columns computed from them are left out.                         *)

\* the tables createTables creates, empty
EmptyTables ==
    [discovery_sessions |-> EmptyMap,
     endpoint_results |-> <<>>,
     session_cdrs |-> EmptyMap,
     discovery_analytics |-> <<>>]

\* one field of the JSON text of a CDRSearchCriteria
jsonField(key, val, omitted) == IF omitted THEN "" ELSE key \o ":" \o val \o ","

\* json.Marshal(result.SearchCriteria)
marshalCriteria(c) ==
    "{" \o jsonField("domain", c.Domain, c.Domain = "")
        \o jsonField("user", c.User, c.User = "")
        \o jsonField("site", c.Site, c.Site = "")
        \o jsonField("call_id", c.CallID, c.CallID = "")
        \o jsonField("start_date", IF c.StartDate = NoDate THEN "" ELSE FormatDate(c.StartDate),
                     c.StartDate = NoDate)
        \o jsonField("end_date", IF c.EndDate = NoDate THEN "" ELSE FormatDate(c.EndDate),
                     c.EndDate = NoDate)
        \o jsonField("start", ToString(c.Start), c.Start = 0)
        \o jsonField("limit", ToString(c.Limit), c.Limit = 0)
        \o jsonField("raw", "true", ~c.Raw)
        \o jsonField("originating_number", c.OriginatingNumber, FALSE)
        \o jsonField("terminating_number", c.TerminatingNumber, FALSE)
        \o jsonField("any_phone_number", c.AnyPhoneNumber, FALSE)
        \o "}"

\* the number of endpoint results of the wanted outcome, from position i on
RECURSIVE countSuccess(_, _, _)
countSuccess(eps, i, wanted) ==
    IF i > Len(eps) THEN 0
    ELSE (IF eps[i].Success = wanted THEN 1 ELSE 0) + countSuccess(eps, i + 1, wanted)

\* the values bound to the INSERT OR REPLACE INTO discovery_sessions
sessionRow(r) ==
    [session_id |-> r.SessionID,
     search_criteria |-> marshalCriteria(r.SearchCriteria),
     total_cdrs |-> r.TotalCDRs,
     unique_cdrs |-> r.UniqueCDRs,
     endpoints_queried |-> Len(r.EndpointResults),
     successful_endpoints |-> countSuccess(r.EndpointResults, 1, TRUE),
     failed_endpoints |-> countSuccess(r.EndpointResults, 1, FALSE),
     raw_data_used |-> \E i \in 1..Len(r.EndpointResults) : r.EndpointResults[i].RawDataUsed,
     errors |-> Arr(r.Errors)]

\* as insertSession, INSERT OR IGNORE in place of INSERT OR REPLACE
insertSessionOrIgnore(t, r) ==
    IF r.SessionID \in DOMAIN t.discovery_sessions THEN t
    ELSE [t EXCEPT !.discovery_sessions = Put(@, r.SessionID, sessionRow(r))]

\* INSERT OR REPLACE INTO discovery_sessions: session_id is the primary key
insertSession(t, r) ==
    [t EXCEPT !.discovery_sessions = Put(@, r.SessionID, sessionRow(r))]

\* storeEndpointResult: a plain INSERT INTO endpoint_results
storeEndpointResult(t, sessionID, er) ==
    [t EXCEPT !.endpoint_results =
        Append(@, [id |-> Len(@) + 1,
                   session_id |-> sessionID,
                   endpoint_name |-> er.EndpointName,
                   endpoint_url |-> er.URL,
                   record_count |-> er.RecordCount,
                   success |-> er.Success,
                   error_message |-> er.Error,
                   http_status |-> er.HTTPStatus,
                   raw_data_used |-> er.RawDataUsed])]

\* storeSessionCDR: INSERT OR IGNORE INTO session_cdrs, whose rows are unique
\* in (session_id, cdr_id, endpoint_source)
storeSessionCDR(t, sessionID, endpoint, cdr) ==
    LET key == <<sessionID, GetID(cdr), endpoint>> IN
    IF key \in DOMAIN t.session_cdrs THEN t
    ELSE [t EXCEPT !.session_cdrs =
            Put(@, key, [raw_json |-> Obj(cdr.RawData),
                         field_count |-> Cardinality(cdr.DetectedFields)])]

RECURSIVE storeCDRsOf(_, _, _, _, _)
storeCDRsOf(t, sessionID, endpoint, cdrs, i) ==
    IF i > Len(cdrs) THEN t
    ELSE storeCDRsOf(storeSessionCDR(t, sessionID, endpoint, cdrs[i]),
                     sessionID, endpoint, cdrs, i + 1)

\* the loop over result.CDRsByEndpoint; rows of different endpoints have
\* different keys, so the order Go walks the map in does not show
RECURSIVE storeSessionCDRs(_, _, _)
storeSessionCDRs(t, r, endpoints) ==
    IF endpoints = {} THEN t
    ELSE LET e == CHOOSE x \in endpoints : TRUE IN
         storeSessionCDRs(storeCDRsOf(t, r.SessionID, e, r.CDRsByEndpoint[e], 1),
                          r, endpoints \ {e})

\* the test updateDiscoveryAnalytics makes before it writes
analyticsWanted(er) == er.Success /\ er.RecordCount > 0

\* the rows of discovery_analytics the subquery's WHERE selects
analyticsMatches(t, combination, name) ==
    {i \in 1..Len(t.discovery_analytics) :
        /\ t.discovery_analytics[i].parameter_combination = combination
        /\ t.discovery_analytics[i].endpoint_name = name}

\* COALESCE((SELECT success_count ... WHERE ...), 0): the subquery gives the
\* success_count of the first row it finds, and SQL leaves open which row of
\* several that is (SQLite finds the one of lowest id)
priorSuccessCounts(t, combination, name) ==
    IF analyticsMatches(t, combination, name) = {} THEN {0}
    ELSE {t.discovery_analytics[i].success_count : i \in analyticsMatches(t, combination, name)}

\* INSERT OR REPLACE INTO discovery_analytics: the table's only key is its id,
\* which the statement does not give, so no row conflicts and a row is added
insertAnalytics(t, combination, er, prior) ==
    [t EXCEPT !.discovery_analytics =
        Append(@, [id |-> Len(@) + 1,
                   parameter_combination |-> combination,
                   endpoint_name |-> er.EndpointName,
                   success_count |-> prior + 1,
                   total_cdrs_found |-> er.RecordCount])]

\* as rollback, the rows written so far staying
rollbackKeepsRows(t, work) == work

\* the deferred tx.Rollback() of a call that returns before its Commit: the
\* database is as it was
rollback(t, work) == t

----------------------------------------------------------------------------
(* StoreDiscoverySession, called by concurrent callers                      *)
(* A call is a sequence of statements on its own transaction; between two   *)
(* of them another caller may run.  What a transaction has written is its   *)
(* working copy, which readers of the database do not see before Commit.    *)
(* SQLite lets one transaction write at a time: the first write of a        *)
(* transaction takes the write lock, and a statement that cannot get it     *)
(* waits or fails.  Any statement may fail.  The cache entries stored here  *)
(* expire long after the calls this specification follows.                  *)

Callers == {1, 2}

\* calls of StoreDiscoverySession in one behaviour
MaxCalls == 3
\* cache entries stored beside them
MaxCached == 1

NoCriteria ==
    [Domain |-> "", User |-> "", Site |-> "", CallID |-> "", StartDate |-> NoDate,
     EndDate |-> NoDate, Start |-> 0, Limit |-> 0, Raw |-> FALSE,
     OriginatingNumber |-> "", TerminatingNumber |-> "", AnyPhoneNumber |-> ""]

UserCriteria == [NoCriteria EXCEPT !.Domain = "a.com", !.User = "u100"]

\* the runs whose results are stored, each with its criteria and the selected
\* endpoints' answers: one endpoint with a record; one endpoint failing, one
\* without records and one with two records
DBRuns ==
    { <<NoCriteria, <<Http(200, Arr(<<RecA>>))>>>>,
      <<UserCriteria, <<Http(404, Invalid), Http(200, Arr(<<>>)),
                        Http(200, Arr(<<RecD, RecB>>))>>>> }

\* the results handed to StoreDiscoverySession
DBResults == {GetComprehensiveCDRs(id, run[1], run[2]) : id \in SessionIDs, run \in DBRuns}

NoTx == [at |-> "idle", arg |-> <<>>, work |-> <<>>, k |-> 0, ret |-> "none"]

InitDB ==
    /\ pc = "start"
    /\ criteria = <<>>
    /\ selected = <<>>
    /\ cfg = 0
    /\ url = <<>>
    /\ NoCalls
    /\ NoLocking
    /\ epResult = <<>>
    /\ result = <<>>
    /\ idx = 0
    /\ queryLog = <<>>
    /\ results = EmptyMap
    /\ ttl = 1
    /\ now = 0
    /\ tasks = <<>>
    /\ getOut = <<>>
    /\ hist = [id \in SessionIDs |-> [kind |-> "never", val |-> "nil"]]
    /\ lastStore = [id \in SessionIDs |-> NoStore]
    /\ db = [tables |-> EmptyTables, writer |-> 0]
    /\ tx = [p \in Callers |-> NoTx]
    /\ storeLog = <<>>
    /\ runs = <<>>
    /\ dedupArg = <<>>
    /\ dedupOut = <<>>

\* the calls that committed or are on their way
CallsMade == Len(storeLog) + Cardinality({p \in Callers : tx[p].at # "idle"})

notDBVars == <<engineVars, cacheVars, runs, dedupVars, callVars, lockVars>>

\* the call is made and dds.db.Begin() gives it a transaction
BeginStore(p, r) ==
    /\ tx[p].at = "idle"
    /\ CallsMade < MaxCalls
    /\ tx' = [tx EXCEPT ![p] = [at |-> "begun", arg |-> r, work |-> <<>>, k |-> 0,
                                 ret |-> "none"]]
    /\ UNCHANGED <<db, storeLog, notDBVars>>

\* the call is made and dds.db.Begin() fails: the call returns the error
BeginFails(p, r) ==
    /\ tx[p].at = "idle"
    /\ CallsMade < MaxCalls
    /\ tx' = [tx EXCEPT ![p] = [NoTx EXCEPT !.ret = "failed to begin transaction"]]
    /\ UNCHANGED <<db, storeLog, notDBVars>>

\* the INSERT OR REPLACE of the session row, the transaction's first write
InsertSession(p) ==
    /\ tx[p].at = "begun"
    /\ db.writer = 0
    /\ db' = [db EXCEPT !.writer = p]
    /\ tx' = [tx EXCEPT ![p] = [@ EXCEPT !.at = "endpoints", !.k = 1,
                                         !.work = insertSession(db.tables, tx[p].arg)]]
    /\ UNCHANGED <<storeLog, notDBVars>>

\* one iteration of the loop over result.EndpointResults
StoreEndpointResult(p) ==
    /\ tx[p].at = "endpoints"
    /\ tx[p].k <= Len(tx[p].arg.EndpointResults)
    /\ tx' = [tx EXCEPT ![p] =
                [@ EXCEPT !.k = @ + 1,
                          !.work = storeEndpointResult(tx[p].work, tx[p].arg.SessionID,
                                                       tx[p].arg.EndpointResults[tx[p].k])]]
    /\ UNCHANGED <<db, storeLog, notDBVars>>

\* the loop over result.CDRsByEndpoint
StoreSessionCDRs(p) ==
    /\ tx[p].at = "endpoints"
    /\ tx[p].k > Len(tx[p].arg.EndpointResults)
    /\ tx' = [tx EXCEPT ![p] =
                [@ EXCEPT !.at = "analytics", !.k = 1,
                          !.work = storeSessionCDRs(tx[p].work, tx[p].arg,
                                                    DOMAIN tx[p].arg.CDRsByEndpoint)]]
    /\ UNCHANGED <<db, storeLog, notDBVars>>

\* one iteration of the loop of updateDiscoveryAnalytics
UpdateAnalytics(p) ==
    /\ tx[p].at = "analytics"
    /\ tx[p].k <= Len(tx[p].arg.EndpointResults)
    /\ LET er == tx[p].arg.EndpointResults[tx[p].k]
           combination == marshalCriteria(tx[p].arg.SearchCriteria)
       IN  IF analyticsWanted(er)
           THEN \E prior \in priorSuccessCounts(tx[p].work, combination, er.EndpointName) :
                    tx' = [tx EXCEPT ![p] =
                            [@ EXCEPT !.k = @ + 1,
                                      !.work = insertAnalytics(tx[p].work, combination, er, prior)]]
           ELSE tx' = [tx EXCEPT ![p] = [@ EXCEPT !.k = @ + 1]]
    /\ UNCHANGED <<db, storeLog, notDBVars>>

\* as Commit, the session leaving the results cache once it is on disk
CommitEvicting(p) ==
    /\ tx[p].at = "analytics"
    /\ tx[p].k > Len(tx[p].arg.EndpointResults)
    /\ db' = [tables |-> tx[p].work, writer |-> 0]
    /\ tx' = [tx EXCEPT ![p] = [NoTx EXCEPT !.ret = "nil"]]
    /\ storeLog' = Append(storeLog, tx[p].arg)
    /\ results' = deleteResult(results, tx[p].arg.SessionID)
    /\ UNCHANGED <<engineVars, ttl, now, tasks, getOut, hist, lastStore, runs, dedupVars, callVars, lockVars>>

\* tx.Commit() succeeds and the call returns nil
Commit(p) ==
    /\ tx[p].at = "analytics"
    /\ tx[p].k > Len(tx[p].arg.EndpointResults)
    /\ db' = [tables |-> tx[p].work, writer |-> 0]
    /\ tx' = [tx EXCEPT ![p] = [NoTx EXCEPT !.ret = "nil"]]
    /\ storeLog' = Append(storeLog, tx[p].arg)
    /\ UNCHANGED notDBVars

\* the call has come to a statement: at a record loop over no records, or at
\* an endpoint result that gets no analytics row, it has not
AtStatement(t) ==
    /\ t.at # "idle"
    /\ ~(/\ t.at = "endpoints" /\ t.k > Len(t.arg.EndpointResults)
         /\ DOMAIN t.arg.CDRsByEndpoint = {})
    /\ ~(/\ t.at = "analytics" /\ t.k <= Len(t.arg.EndpointResults)
         /\ ~analyticsWanted(t.arg.EndpointResults[t.k]))

\* the error StoreDiscoverySession returns when the statement it has come to
\* fails
storeError(t) ==
    IF t.at = "begun" THEN "failed to insert discovery session"
    ELSE IF t.at = "endpoints" /\ t.k <= Len(t.arg.EndpointResults)
         THEN "failed to store endpoint result"
    ELSE IF t.at = "endpoints" THEN "failed to store session CDR"
    ELSE IF t.k <= Len(t.arg.EndpointResults) THEN "failed to update analytics"
    ELSE "commit failed"

\* the statement the call has come to fails (tx.Commit() when no statement is
\* left): the call returns the error and the deferred tx.Rollback() runs
FailStore(p) ==
    /\ AtStatement(tx[p])
    /\ db' = [tables |-> rollback(db.tables,
                                  IF tx[p].at = "begun" THEN db.tables ELSE tx[p].work),
              writer |-> IF db.writer = p THEN 0 ELSE db.writer]
    /\ tx' = [tx EXCEPT ![p] = [NoTx EXCEPT !.ret = storeError(tx[p])]]
    /\ UNCHANGED <<storeLog, notDBVars>>

\* a search handler puts a result into the cache
CacheSession(sessionID, r) ==
    /\ Len(tasks) < MaxCached
    /\ Store(sessionID, r)

NextDB ==
    \/ \E p \in Callers, r \in DBResults : BeginStore(p, r)
    \/ \E p \in Callers, r \in DBResults : BeginFails(p, r)
    \/ \E p \in Callers : InsertSession(p)
    \/ \E p \in Callers : StoreEndpointResult(p)
    \/ \E p \in Callers : StoreSessionCDRs(p)
    \/ \E p \in Callers : UpdateAnalytics(p)
    \/ \E p \in Callers : Commit(p)
    \/ \E p \in Callers : FailStore(p)
    \/ \E id \in SessionIDs : CacheSession(id, "r1")

SpecDB == InitDB /\ [][NextDB]_vars

\* the endpoint results of r, up to position n, that get an analytics row
WantedUpTo(r, n) == {i \in 1..n : analyticsWanted(r.EndpointResults[i])}

\* the keys of the session_cdrs rows a store of r writes or finds written
CDRKeys(r) ==
    UNION {{<<r.SessionID, GetID(r.CDRsByEndpoint[e][i]), e>> :
                i \in 1..Len(r.CDRsByEndpoint[e])} : e \in DOMAIN r.CDRsByEndpoint}

\* the working copy w holds, beyond the tables t, the session row of r, the
\* rows of its first n endpoint results, its record rows if cdrs, and the
\* analytics rows of its first m endpoint results
Written(w, t, r, n, cdrs, m) ==
    /\ r.SessionID \in DOMAIN w.discovery_sessions
    /\ w.discovery_sessions[r.SessionID] = sessionRow(r)
    /\ \A id \in DOMAIN t.discovery_sessions \ {r.SessionID} :
           id \in DOMAIN w.discovery_sessions
    /\ Len(w.endpoint_results) = Len(t.endpoint_results) + n
    /\ \A i \in 1..n :
           LET row == w.endpoint_results[Len(t.endpoint_results) + i] IN
           /\ row.session_id = r.SessionID
           /\ row.endpoint_name = r.EndpointResults[i].EndpointName
    /\ IF cdrs THEN DOMAIN w.session_cdrs = DOMAIN t.session_cdrs \cup CDRKeys(r)
       ELSE w.session_cdrs = t.session_cdrs
    /\ Len(w.discovery_analytics) =
           Len(t.discovery_analytics) + Cardinality(WantedUpTo(r, m))

\* the call of caller p returns in this step
Returns(p) == tx[p].at # "idle" /\ tx'[p].at = "idle"

\* C11: StoreDiscoverySession writes the session row, then the endpoint rows,
\* then the record rows, then the analytics rows in one transaction and commits
\* last; the database readers see changes only when a call returns nil, and
\* then it holds all the rows of that call, while a call that returns an error
\* leaves the database as it was before the call's first write
C11_StoreIsAllOrNothing ==
    [][ /\ \A p \in Callers :
               /\ (tx[p].at = "endpoints" =>
                       /\ db.writer = p
                       /\ Written(tx[p].work, db.tables, tx[p].arg, tx[p].k - 1, FALSE, 0))
               /\ (tx[p].at = "analytics" =>
                       /\ db.writer = p
                       /\ Written(tx[p].work, db.tables, tx[p].arg,
                                  Len(tx[p].arg.EndpointResults), TRUE, tx[p].k - 1))
               /\ (Returns(p) =>
                       IF tx'[p].ret = "nil"
                       THEN /\ tx[p].at = "analytics"
                            /\ Written(db'.tables, db.tables, tx[p].arg,
                                       Len(tx[p].arg.EndpointResults), TRUE,
                                       Len(tx[p].arg.EndpointResults))
                       ELSE /\ tx'[p].ret # "none"
                            /\ db'.tables = db.tables)
        /\ ((\A p \in Callers : ~(Returns(p) /\ tx'[p].ret = "nil"))
               => db'.tables = db.tables)
      ]_vars

\* a call of caller 1 that had written its session row, its endpoint rows and
\* its record rows returned an error from the analytics update, caller 2 has a
\* transaction begun, nothing was committed, and the database is empty
C11_Witness ==
    /\ tx[1].at = "idle"
    /\ tx[1].ret = "failed to update analytics"
    /\ tx[2].at = "begun"
    /\ storeLog = <<>>
    /\ db.tables = EmptyTables
    /\ db.writer = 0

\* the step belongs to a call of StoreDiscoverySession
StoreStep == tx' # tx \/ storeLog' # storeLog

\* C12: no step of a StoreDiscoverySession call, whether it writes, commits or
\* fails, changes the results cache: what Get finds for a session id before
\* the step, it finds after it
C12_StoreLeavesCacheAlone ==
    [][StoreStep =>
          \A id \in SessionIDs : getResult(results', id) = getResult(results, id)]_vars

\* the cache holds s1 after a store of an s1 result by caller 1 committed and
\* a store by caller 2 failed at its commit
C12_Witness ==
    /\ getResult(results, "s1") = [found |-> TRUE, val |-> "r1"]
    /\ Len(storeLog) = 1
    /\ storeLog[1].SessionID = "s1"
    /\ tx[1].ret = "nil"
    /\ tx[2].at = "idle" /\ tx[2].ret = "commit failed"
    /\ "s1" \in DOMAIN db.tables.discovery_sessions

\* the positions in storeLog of the calls that committed a result of session id
CommittedAt(id) ==
    {i \in 1..Len(storeLog) : storeLog[i].SessionID = id}

Latest(S) == CHOOSE i \in S : \A j \in S : j <= i

\* C13: discovery_sessions holds one row for each session id a committed store
\* had and no other, and the row of an id has the values of the last committed
\* store of that id
C13_OneSessionRowOfLastStore ==
    /\ DOMAIN db.tables.discovery_sessions = {id \in SessionIDs : CommittedAt(id) # {}}
    /\ \A id \in DOMAIN db.tables.discovery_sessions :
           db.tables.discovery_sessions[id] = sessionRow(storeLog[Latest(CommittedAt(id))])

\* s1 was stored twice with different values, then s2: the row of s1 is that
\* of its second store
C13_Witness ==
    /\ Len(storeLog) = 3
    /\ CommittedAt("s1") = {1, 2}
    /\ CommittedAt("s2") = {3}
    /\ sessionRow(storeLog[1]) # sessionRow(storeLog[2])
    /\ db.tables.discovery_sessions["s1"].total_cdrs = storeLog[2].TotalCDRs
    /\ storeLog[1].TotalCDRs # storeLog[2].TotalCDRs

\* the rows of endpoint_results with the session id
EndpointRowsOf(id) ==
    {i \in 1..Len(db.tables.endpoint_results) :
        db.tables.endpoint_results[i].session_id = id}

\* C14: after any committed stores, a retried store of the same session id
\* among them, endpoint_results holds as many rows with a session id as that
\* session has EndpointResults
C14_EndpointRowsOncePerSession ==
    \A id \in SessionIDs :
        CommittedAt(id) # {} =>
            Cardinality(EndpointRowsOf(id))
                = Len(storeLog[Latest(CommittedAt(id))].EndpointResults)

\* the committed stores of runs with the serialized criteria in which the
\* endpoint succeeded with at least one record
QualifyingStores(combination, name) ==
    {i \in 1..Len(storeLog) :
        /\ marshalCriteria(storeLog[i].SearchCriteria) = combination
        /\ \E j \in 1..Len(storeLog[i].EndpointResults) :
               /\ storeLog[i].EndpointResults[j].EndpointName = name
               /\ storeLog[i].EndpointResults[j].Success
               /\ storeLog[i].EndpointResults[j].RecordCount > 0}

\* C15: discovery_analytics has rows for a (criteria, endpoint) key exactly
\* when a committed store had an EndpointResult of that key with Success and
\* RecordCount > 0, and after k such stores the success count recorded for
\* the key, that of the row written last for it, is k
C15_AnalyticsCountAccumulates ==
    /\ \A n \in 1..Len(db.tables.discovery_analytics) :
           QualifyingStores(db.tables.discovery_analytics[n].parameter_combination,
                            db.tables.discovery_analytics[n].endpoint_name) # {}
    /\ \A i \in 1..Len(storeLog) : \A j \in 1..Len(storeLog[i].EndpointResults) :
           LET combination == marshalCriteria(storeLog[i].SearchCriteria)
               name == storeLog[i].EndpointResults[j].EndpointName
               rows == analyticsMatches(db.tables, combination, name)
           IN  QualifyingStores(combination, name) # {} =>
                   /\ rows # {}
                   /\ db.tables.discovery_analytics[Latest(rows)].success_count
                          = Cardinality(QualifyingStores(combination, name))

\* C16: after any calls of StoreDiscoverySession, sequential or concurrent,
\* discovery_analytics holds at most one row for each pair of parameter
\* combination and endpoint name
C16_OneAnalyticsRowPerKey ==
    \A m, n \in 1..Len(db.tables.discovery_analytics) :
        (/\ db.tables.discovery_analytics[m].parameter_combination
                = db.tables.discovery_analytics[n].parameter_combination
         /\ db.tables.discovery_analytics[m].endpoint_name
                = db.tables.discovery_analytics[n].endpoint_name)
            => m = n

----------------------------------------------------------------------------
(* Concurrent search requests: ProcessSearchForm                            *)
(* Each request is handled in its own goroutine: it makes a discovery run,  *)
(* which takes its session id from the clock in its first statements, and   *)
(* stores the result in GlobalResultsStore under that id.  The clock counts *)
(* nanoseconds here; two reads with no tick between them give the same      *)
(* reading.  The goroutines Store starts sleep for the hour GlobalResults-  *)
(* Store is built with, far beyond the readings followed here.              *)

Handlers == {1, 2}

\* last reading of the clock
MaxNanos == 2

NoRun == [at |-> "idle", sessionID |-> "", result |-> <<>>]

InitSession ==
    /\ pc = "start"
    /\ criteria = <<>>
    /\ selected = <<>>
    /\ cfg = 0
    /\ url = <<>>
    /\ NoCalls
    /\ NoLocking
    /\ epResult = <<>>
    /\ result = <<>>
    /\ idx = 0
    /\ queryLog = <<>>
    /\ NoCache
    /\ db = <<>>
    /\ tx = <<>>
    /\ storeLog = <<>>
    /\ runs = [h \in Handlers |-> NoRun]
    /\ dedupArg = <<>>
    /\ dedupOut = <<>>

\* GetComprehensiveCDRs is called and reads the clock for its session id
StartDiscovery(h) ==
    /\ runs[h].at = "idle"
    /\ runs' = [runs EXCEPT ![h] = [@ EXCEPT !.at = "running",
                                             !.sessionID = generateSessionID(now)]]
    /\ UNCHANGED <<engineVars, cacheVars, dbVars, dedupVars, callVars, lockVars>>

\* the endpoints have answered and GetComprehensiveCDRs returns its result
FinishDiscovery(h, c, resps) ==
    /\ runs[h].at = "running"
    /\ runs' = [runs EXCEPT ![h] =
                  [@ EXCEPT !.at = "found",
                            !.result = GetComprehensiveCDRs(runs[h].sessionID, c, resps)]]
    /\ UNCHANGED <<engineVars, cacheVars, dbVars, dedupVars, callVars, lockVars>>

\* services.GlobalResultsStore.Store(result.SessionID, result)
StoreSession(h) ==
    /\ runs[h].at = "found"
    /\ results' = storeResult(results, runs[h].result.SessionID, runs[h].result)
    /\ tasks' = Append(tasks, [id |-> runs[h].result.SessionID, at |-> "start", wake |-> 0])
    /\ runs' = [runs EXCEPT ![h] = [@ EXCEPT !.at = "stored"]]
    /\ UNCHANGED <<engineVars, ttl, now, getOut, hist, lastStore, dbVars, dedupVars, callVars, lockVars>>

\* a nanosecond passes
ClockTick ==
    /\ now < MaxNanos
    /\ now' = now + 1
    /\ UNCHANGED <<engineVars, results, ttl, tasks, getOut, hist, lastStore, outerVars>>

NextSession ==
    \/ \E h \in Handlers : StartDiscovery(h)
    \/ \E h \in Handlers, run \in DBRuns : FinishDiscovery(h, run[1], run[2])
    \/ \E h \in Handlers : StoreSession(h)
    \/ ClockTick

SpecSession == InitSession /\ [][NextSession]_vars

\* C17: two discovery runs, also two started concurrently, have different
\* session ids, and so the cache entry a run's result was stored under holds
\* that result, not another run's
C17_SessionIDsDiffer ==
    /\ \A g, h \in Handlers :
           (g # h /\ runs[g].at # "idle" /\ runs[h].at # "idle")
               => runs[g].sessionID # runs[h].sessionID
    /\ \A h \in Handlers :
           runs[h].at = "stored" =>
               getResult(results, runs[h].sessionID) = [found |-> TRUE, val |-> runs[h].result]

----------------------------------------------------------------------------
(* Direct calls of deduplicateCDRs: on a slice of records, then on what it  *)
(* returned                                                                 *)

\* longest slice handed to deduplicateCDRs
MaxDedupLen == 3
\* calls in a row, each on the result of the one before
MaxPasses == 2

\* the records of RecordPool as convertMapToFlexibleCDR delivers them
CDRPool == {convertMapToFlexibleCDR(rec.o).cdr : rec \in RecordPool}

InitDedup ==
    /\ pc = "start"
    /\ criteria = <<>>
    /\ selected = <<>>
    /\ cfg = 0
    /\ url = <<>>
    /\ NoCalls
    /\ NoLocking
    /\ epResult = <<>>
    /\ result = <<>>
    /\ idx = 0
    /\ queryLog = <<>>
    /\ NoCache
    /\ db = <<>>
    /\ tx = <<>>
    /\ storeLog = <<>>
    /\ runs = <<>>
    /\ dedupArg \in SeqsUpTo(CDRPool, MaxDedupLen)
    /\ dedupOut = <<>>

\* deduplicateCDRs is called: on dedupArg first, then on its last result
DeduplicateCDRs ==
    /\ Len(dedupOut) < MaxPasses
    /\ dedupOut' = Append(dedupOut,
                          deduplicateCDRs(IF dedupOut = <<>> THEN dedupArg
                                          ELSE dedupOut[Len(dedupOut)]))
    /\ UNCHANGED <<engineVars, cacheVars, dbVars, runs, dedupArg, callVars, lockVars>>

NextDedup == DeduplicateCDRs

SpecDedup == InitDedup /\ [][NextDedup]_vars

\* C18: deduplicateCDRs applied to its own result gives that result again, the
\* same records in the same order
C18_DedupIdempotent ==
    \A i \in 2..Len(dedupOut) :
        /\ Len(dedupOut[i]) = Len(dedupOut[1])
        /\ \A n \in 1..Len(dedupOut[1]) : dedupOut[i][n] = dedupOut[1][n]

\* two records of one identity (one by id, one by cdr_id), one of another and
\* one without identity, deduplicated twice: two records are left both times
C18_Witness ==
    /\ Len(dedupOut) = 2
    /\ Len(dedupArg) = 3
    /\ GetID(dedupArg[1]) = "rec-1" /\ GetID(dedupArg[2]) = "rec-1"
    /\ dedupArg[1] # dedupArg[2]
    /\ GetID(dedupArg[3]) = "rec-2"
    /\ dedupOut[1] = <<dedupArg[1], dedupArg[3]>>
    /\ dedupOut[2] = dedupOut[1]

----------------------------------------------------------------------------
(* The raw flag and the outcome of a run *)

\* C19: whatever the caller passed, the criteria kept in the result of a run
\* have Raw = true from the first statement on, the endpoints are selected
\* with these criteria, and every endpoint queried that supports raw is
\* queried with raw=yes in its URL and flagged RawDataUsed
C19_RawForcedOn ==
    pc \in {"loop", "done"} =>
        /\ result.SearchCriteria.Raw
        /\ result.SearchCriteria =
               [criteria EXCEPT !.Raw = TRUE,
                                !.Limit = IF criteria.Limit = 0 THEN DefaultLimit
                                          ELSE criteria.Limit]
        /\ selected = selectEndpointsToQuery(result.SearchCriteria)
        /\ \A i \in 1..Len(result.EndpointResults) :
               selected[i].SupportsRaw =>
                   /\ Contains(result.EndpointResults[i].URL, "raw=yes")
                   /\ result.EndpointResults[i].RawDataUsed

\* a caller that passed Raw = false: three endpoints queried, each with raw=yes
C19_Witness ==
    /\ pc = "done"
    /\ ~criteria.Raw
    /\ Len(result.EndpointResults) = 3
    /\ \A i \in 1..3 : /\ selected[i].SupportsRaw
                       /\ Contains(result.EndpointResults[i].URL, "raw=yes")
    /\ result.EndpointResults[1].Success /\ ~result.EndpointResults[2].Success

\* A run is straight-line code in one goroutine, and every query ends: the
\* HTTP client is built with a timeout of 30 seconds.  So a run that can take
\* a step takes it.
\* The runs followed to their end are those of the callers that pass no site
\* and leave limit and raw unset.
InitRunFair == InitRun /\ criteria.Site = "" /\ ~criteria.Raw

SpecRunFair == InitRunFair /\ [][NextRun]_vars /\ WF_vars(NextRun)

\* C20: whatever the selected endpoints answer, all of them failing included,
\* the run comes to its return, which is the one return of a result with a
\* nil error; the result has an endpoint result for every selected endpoint,
\* and each failed one has Success = false, an Error text that is not empty
\* and an entry in Errors
C20_RunNeverAborts ==
    /\ <>(pc = "done")
    /\ [](pc = "done" =>
            /\ Len(result.EndpointResults) = Len(selected)
            /\ \A i \in 1..Len(result.EndpointResults) :
                   ~result.EndpointResults[i].Success =>
                       /\ result.EndpointResults[i].Error # ""
                       /\ ErrorsOf(result.EndpointResults[i].EndpointName) # {})

\* three endpoints selected and all three failed, each in its way: the run
\* returned a result without records
C20_Witness ==
    /\ pc = "done"
    /\ Len(selected) = 3
    /\ result.EndpointResults[1].Error = "HTTP request error"
    /\ result.EndpointResults[2].Error = "HTTP 404"
    /\ result.EndpointResults[3].Error = "JSON decode error"
    /\ \A i \in 1..3 : ~result.EndpointResults[i].Success
    /\ result.UniqueCDRs = 0
    /\ Len(result.Errors) > 0

----------------------------------------------------------------------------
(* Claims about the query executor's failure taxonomy and decoding *)

\* the direct call reached the network and got an HTTP response
Answered ==
    /\ pc = "queried"
    /\ reply.kind = "http"
    /\ epResult.Error # "URL build error"

StatusFailure(er) == ~er.Success /\ er.Error = "HTTP " \o ToString(er.HTTPStatus)

\* what the claims expect of a body: the maps of the records it decodes to,
\* or no decoding at all
RECURSIVE Decoded(_)
Decoded(body) ==
    IF body.t = "arr"
    THEN LET objs == SelectSeq(body.a, LAMBDA v : v.t = "obj")
         IN [ok |-> TRUE, maps |-> [i \in 1..Len(objs) |-> objs[i].o]]
    ELSE IF body.t = "obj"
    THEN IF "data" \in DOMAIN body.o THEN Decoded(body.o["data"])
         ELSE [ok |-> TRUE, maps |-> <<body.o>>]
    ELSE [ok |-> FALSE, maps |-> <<>>]

\* C21: queryEndpoint reports an HTTP-status failure exactly when the status
\* of the response is outside 200..299, with the status in HTTPStatus; a 2xx
\* response with a decodable body gives Success with RecordCount the number
\* of decoded records
C21_StatusFailureIffNot2xx ==
    Answered =>
        /\ epResult.HTTPStatus = reply.status
        /\ (StatusFailure(epResult) <=> reply.status \notin 200..299)
        /\ (reply.status \in 200..299 /\ Decoded(reply.body).ok =>
                /\ epResult.Success
                /\ epResult.RecordCount = Len(Decoded(reply.body).maps))

\* C22: a 200 response is decoded by shape: an array gives one record per
\* object element, in array order, the other elements being skipped; an
\* object without "data" gives one record; an object with "data" gives what
\* the value under "data" gives; the call is then a success with these
\* records.  Any other body fails this call: not JSON is a JSON decode
\* error, another shape a CDR conversion error.
C22_ThreeShapesDecoded ==
    Answered /\ reply.status = StatusOK =>
        LET d == Decoded(reply.body) IN
        IF d.ok
        THEN /\ epResult.Success /\ epResult.Error = ""
             /\ epResult.RecordCount = Len(d.maps)
             /\ Len(epResult.CDRs) = Len(d.maps)
             /\ \A i \in 1..Len(d.maps) :
                    /\ epResult.CDRs[i].RawData = d.maps[i]
                    /\ epResult.CDRs[i].DetectedFields = DOMAIN d.maps[i]
        ELSE /\ ~epResult.Success
             /\ epResult.CDRs = <<>> /\ epResult.RecordCount = 0
             /\ epResult.Error = IF reply.body.t = "invalid" THEN "JSON decode error"
                                 ELSE "CDR conversion error"

\* an array of a record and a string: the string is skipped, the call
\* succeeds with the one record
C22_Witness ==
    /\ Answered /\ reply.status = StatusOK
    /\ reply.body = Arr(<<RecA, Str("x")>>)
    /\ epResult.Success
    /\ epResult.RecordCount = 1
    /\ epResult.CDRs[1].RawData = RecA.o

----------------------------------------------------------------------------
(* FlexibleCDR on its own (models/cdr.go): decoding, accessors, encoding    *)
(* JSON numbers are whole numbers in the model.                             *)

Num(n) == [t |-> "num", n |-> n]

\* the largest number strconv.Atoi is tried on
MaxAtoi == 200

\* strconv.Atoi on the decimal numerals up to MaxAtoi; any other string is
\* an error
Atoi(str) ==
    LET hits == {n \in 0..MaxAtoi : ToString(n) = str}
    IN IF hits = {} THEN [n |-> 0, err |-> TRUE]
       ELSE [n |-> CHOOSE n \in hits : TRUE, err |-> FALSE]

GetInt(f, field) ==
    IF field \in DOMAIN f.RawData /\ f.RawData[field].t # "null"
    THEN LET val == f.RawData[field] IN
         IF val.t = "num" THEN val.n
         ELSE IF val.t = "str" /\ ~Atoi(val.s).err THEN Atoi(val.s).n
         ELSE 0
    ELSE 0

GetCallDuration(f) ==
    IF GetInt(f, "call-total-duration-seconds") > 0
    THEN GetInt(f, "call-total-duration-seconds")
    ELSE GetInt(f, "duration")

\* the zero value of FlexibleCDR
ZeroCDR == [RawData |-> <<>>, DetectedFields |-> {}]

\* json.Unmarshal(data, &cdr): the object becomes RawData and its keys are
\* catalogued; null leaves the zero value; any other value is an error
UnmarshalJSON(data) ==
    IF data.t = "obj"
    THEN [cdr |-> [RawData |-> data.o, DetectedFields |-> DOMAIN data.o], err |-> FALSE]
    ELSE IF data.t = "null" THEN [cdr |-> ZeroCDR, err |-> FALSE]
    ELSE [cdr |-> ZeroCDR, err |-> TRUE]

\* the struct tags of FlexibleCDR: both fields are tagged json:"-"
FlexibleCDRTags == [RawData |-> "-", DetectedFields |-> "-"]

\* json.Marshal(cdr): FlexibleCDR has no MarshalJSON method, so the struct is
\* encoded field by field, without the fields tagged "-"
Marshal(f) ==
    LET encoded == {k \in DOMAIN FlexibleCDRTags : FlexibleCDRTags[k] # "-"}
    IN Obj([k \in encoded |-> f[k]])

\* json.Unmarshal of an encoding into a map[string]interface{}
UnmarshalMap(data) == IF data.t = "obj" THEN data.o ELSE <<>>

\* a field that the JSON object does not have
Absent == [t |-> "absent"]

\* the JSON objects decoded: identity under the modern and the legacy name
\* (a string, the empty string, null, a number, or no field), and durations
\* under the three names in use
CDRShapes ==
    [id : {Absent, Str("test-123"), Str(""), Null, Num(7)},
     cdr_id : {Absent, Str("legacy-9"), Str("")},
     callDuration : {Absent, Num(120)},
     totalSeconds : {Absent, Num(0), Num(45), Str("45")},
     duration : {Absent, Num(30), Str("n/a")}]

ShapeFields(sh) ==
    [f \in {"id", "cdr_id", "call-duration", "call-total-duration-seconds", "duration"} |->
        CASE f = "id" -> sh.id
          [] f = "cdr_id" -> sh.cdr_id
          [] f = "call-duration" -> sh.callDuration
          [] f = "call-total-duration-seconds" -> sh.totalSeconds
          [] f = "duration" -> sh.duration]

ObjectOf(sh) ==
    LET all == ShapeFields(sh)
    IN Obj([f \in {x \in DOMAIN all : all[x] # Absent} |-> all[f]])

CDRInputs == {ObjectOf(sh) : sh \in CDRShapes} \cup {Null, Str("x")}

InitCDR ==
    /\ pc = "start"
    /\ criteria = <<>>
    /\ cfg = 0
    /\ selected = <<>>
    /\ url = <<>>
    /\ epResult = <<>>
    /\ result = <<>>
    /\ idx = 0
    /\ queryLog = <<>>
    /\ NoCache
    /\ db = <<>> /\ tx = <<>> /\ storeLog = <<>> /\ runs = <<>>
    /\ dedupArg = <<>> /\ dedupOut = <<>>
    /\ reply = <<>>
    /\ record = ZeroCDR
    /\ got = <<>>
    /\ NoLocking

notCallVars ==
    <<criteria, selected, funVars, runVars, cacheVars, dbVars, runs, dedupVars, reply, lockVars>>

\* var cdr FlexibleCDR; err := json.Unmarshal(data, &cdr)
Unmarshal ==
    /\ pc = "start"
    /\ \E data \in CDRInputs :
           /\ record' = UnmarshalJSON(data).cdr
           /\ got' = [json |-> data]
           /\ pc' = IF UnmarshalJSON(data).err THEN "failed" ELSE "decoded"
    /\ UNCHANGED notCallVars

\* the call of one method on the decoded record, its return value kept
Called(method, value) ==
    /\ pc = "decoded"
    /\ method \notin DOMAIN got
    /\ got' = Put(got, method, value)
    /\ UNCHANGED <<pc, record, notCallVars>>

CallGetID == Called("GetID", GetID(record))

CallGetCallDuration == Called("GetCallDuration", GetCallDuration(record))

CallGetFieldNames == Called("GetFieldNames", record.DetectedFields)

\* json.Marshal(cdr), and the encoding decoded again into a map
CallMarshal == Called("Marshal", Marshal(record))

NextCDR ==
    \/ Unmarshal
    \/ CallGetID
    \/ CallGetCallDuration
    \/ CallGetFieldNames
    \/ CallMarshal

SpecCDR == InitCDR /\ [][NextCDR]_vars

----------------------------------------------------------------------------
(* Claims about FlexibleCDR *)

\* the text of a field of the record: "" when the field is absent or null
FieldText(field) ==
    IF field \notin DOMAIN record.RawData THEN ""
    ELSE LET v == record.RawData[field] IN
         IF v.t = "str" THEN v.s
         ELSE IF v.t = "num" THEN ToString(v.n)
         ELSE ""

Has(method) == pc = "decoded" /\ method \in DOMAIN got

\* C23 as claimed: GetID returns the value of `id` whenever the record has
\* that field, the value of `cdr_id` only if `id` is absent, and "" when the
\* record has neither
C23_IDWheneverPresent ==
    Has("GetID") =>
        got.GetID = IF "id" \in DOMAIN record.RawData THEN FieldText("id")
                    ELSE FieldText("cdr_id")

\* C23 as amended: GetID returns the text of `id` whenever that text is not
\* empty, and otherwise the text of `cdr_id`, which is "" when `cdr_id` is
\* absent, null or empty
C23_IDFirstNonEmpty ==
    Has("GetID") =>
        got.GetID = IF FieldText("id") # "" THEN FieldText("id")
                    ELSE FieldText("cdr_id")

\* a record with an empty `id` and a legacy identity: the legacy one is returned
C23_Witness ==
    /\ Has("GetID")
    /\ "id" \in DOMAIN record.RawData /\ record.RawData["id"] = Str("")
    /\ "cdr_id" \in DOMAIN record.RawData
    /\ got.GetID = "legacy-9"

\* C24: the encoding of a FlexibleCDR is an object with every field of its
\* RawData and the field's value, and decoding the encoding into a map gives
\* RawData back
C24_MarshalKeepsFields ==
    Has("Marshal") =>
        /\ got.Marshal.t = "obj"
        /\ \A k \in DOMAIN record.RawData :
               k \in DOMAIN got.Marshal.o /\ got.Marshal.o[k] = record.RawData[k]
        /\ UnmarshalMap(got.Marshal) = record.RawData

\* the record has its duration under `call-duration` and under no other name
DurationInCallDuration ==
    /\ "call-duration" \in DOMAIN record.RawData
    /\ record.RawData["call-duration"].t = "num"
    /\ "call-total-duration-seconds" \notin DOMAIN record.RawData
    /\ "duration" \notin DOMAIN record.RawData

\* C25: for a decoded record with its duration in `call-duration`,
\* GetCallDuration returns that value, and the record has as many detected
\* fields as the JSON object has keys
C25_CallDurationRead ==
    /\ (Has("GetCallDuration") /\ DurationInCallDuration =>
            got.GetCallDuration = record.RawData["call-duration"].n)
    /\ (Has("GetFieldNames") /\ got.json.t = "obj" =>
            Cardinality(got.GetFieldNames) = Cardinality(DOMAIN got.json.o))

----------------------------------------------------------------------------
(* The results cache statement by statement: ResultsStore under its lock    *)
(* Every method is three steps: it takes rs.mu, it runs its body, it        *)
(* returns, the deferred unlock running at the return.  Maps are objects    *)
(* on the heap, and the struct holds the address of its map.  The goroutine *)
(* that Store starts reads rs.ttl, sleeps for a time the model leaves open, *)
(* and calls Delete.  sync.RWMutex is modelled from its documentation: one  *)
(* writer or any number of readers.                                         *)

\* the goroutines that call the methods of the cache
CacheCallers == {1, 2}
\* method calls in one behaviour
MaxOps == 3
\* the session id and the result the calls are made with
LockIDs == {"s1"}
LockResults == {"r1"}

WriteOps == {"Store", "Delete", "Clear", "UpdateTTL"}
ReadOps == {"Get", "GetAll", "Count"}

NoRet == [of |-> "none"]

\* a goroutine: the method it is in (op) with its arguments (id, val, ttl),
\* where it is in it (pc), what its last call returned (ret) and the number
\* of calls it has made; for a goroutine started by Store, id is the session
\* id it captured and ttl what it read from rs.ttl; history: the caller whose
\* Store started it (owner), the value rs.ttl had then (born), and whether
\* it held the lock when it read rs.ttl (locked)
Idle == [op |-> "none", pc |-> "idle", id |-> "", val |-> "nil", ttl |-> 0,
         ret |-> NoRet, calls |-> 0, owner |-> 0, born |-> 0, locked |-> FALSE]

InitLock ==
    /\ pc = "start"
    /\ criteria = <<>>
    /\ cfg = 0
    /\ selected = <<>>
    /\ url = <<>>
    /\ epResult = <<>>
    /\ result = <<>>
    /\ idx = 0
    /\ queryLog = <<>>
    /\ NoCache
    /\ db = <<>> /\ tx = <<>> /\ storeLog = <<>> /\ runs = <<>>
    /\ dedupArg = <<>> /\ dedupOut = <<>>
    /\ NoCalls
    /\ mu = [writer |-> 0, readers |-> {}]
    /\ heap = <<EmptyMap>>
    /\ rs = [results |-> 1, ttl |-> 1]
    /\ gs = [g \in CacheCallers |-> Idle]

notLockVars ==
    <<pc, criteria, selected, funVars, runVars, cacheVars, dbVars, runs, dedupVars, callVars>>

RECURSIVE sumCalls(_)
sumCalls(S) ==
    IF S = {} THEN 0
    ELSE LET g == CHOOSE x \in S : TRUE IN gs[g].calls + sumCalls(S \ {g})

\* the map rs.results refers to
TheResults == heap[rs.results]

\* a caller enters a method
Call(g, op, id, val, t) ==
    /\ gs[g].pc = "idle"
    /\ sumCalls(CacheCallers) < MaxOps
    /\ gs' = [gs EXCEPT ![g] = [@ EXCEPT !.op = op, !.pc = "lock", !.id = id, !.val = val,
                                         !.ttl = t, !.ret = NoRet, !.calls = @ + 1]]
    /\ UNCHANGED <<mu, heap, rs, notLockVars>>

\* rs.mu.Lock(), the first statement of Store, Delete, Clear and UpdateTTL
Lock(g) ==
    /\ gs[g].pc = "lock" /\ gs[g].op \in WriteOps
    /\ mu.writer = 0 /\ mu.readers = {}
    /\ mu' = [mu EXCEPT !.writer = g]
    /\ gs' = [gs EXCEPT ![g].pc = "body"]
    /\ UNCHANGED <<heap, rs, notLockVars>>

\* as RLock, the lock not taken
RLockLeftOut(g) ==
    /\ gs[g].pc = "lock" /\ gs[g].op \in ReadOps
    /\ gs' = [gs EXCEPT ![g].pc = "body"]
    /\ UNCHANGED <<mu, heap, rs, notLockVars>>

\* rs.mu.RLock(), the first statement of Get, GetAll and Count
RLock(g) ==
    /\ gs[g].pc = "lock" /\ gs[g].op \in ReadOps
    /\ mu.writer = 0
    /\ mu' = [mu EXCEPT !.readers = @ \cup {g}]
    /\ gs' = [gs EXCEPT ![g].pc = "body"]
    /\ UNCHANGED <<heap, rs, notLockVars>>

\* the goroutine Store starts with `go func`
Started(g, sessionID) ==
    [Idle EXCEPT !.op = "expiry", !.pc = "sleep", !.id = sessionID,
                 !.owner = g, !.born = rs.ttl]

\* Store between Lock and return: the write of the map and the go statement
StoreBody(g) ==
    /\ gs[g].pc = "body" /\ gs[g].op = "Store"
    /\ heap' = [heap EXCEPT ![rs.results] = storeResult(@, gs[g].id, gs[g].val)]
    /\ gs' = Append([gs EXCEPT ![g].pc = "return"], Started(g, gs[g].id))
    /\ UNCHANGED <<mu, rs, notLockVars>>

GetBody(g) ==
    /\ gs[g].pc = "body" /\ gs[g].op = "Get"
    /\ gs' = [gs EXCEPT ![g] = [@ EXCEPT !.pc = "return",
                   !.ret = [of |-> "Get", out |-> getResult(TheResults, gs[g].id)]]]
    /\ UNCHANGED <<mu, heap, rs, notLockVars>>

DeleteBody(g) ==
    /\ gs[g].pc = "body" /\ gs[g].op = "Delete"
    /\ heap' = [heap EXCEPT ![rs.results] = deleteResult(@, gs[g].id)]
    /\ gs' = [gs EXCEPT ![g].pc = "return"]
    /\ UNCHANGED <<mu, rs, notLockVars>>

\* as GetAllBody, the map of the cache itself returned
GetAllLive(g) ==
    /\ gs[g].pc = "body" /\ gs[g].op = "GetAll"
    /\ gs' = [gs EXCEPT ![g] = [@ EXCEPT !.pc = "return",
                   !.ret = [of |-> "GetAll", addr |-> rs.results, changed |-> FALSE]]]
    /\ UNCHANGED <<mu, heap, rs, notLockVars>>

\* GetAll: resultsCopy := make(...), the loop copying every entry
GetAllBody(g) ==
    /\ gs[g].pc = "body" /\ gs[g].op = "GetAll"
    /\ heap' = Append(heap, [k \in DOMAIN TheResults |-> TheResults[k]])
    /\ gs' = [gs EXCEPT ![g] = [@ EXCEPT !.pc = "return",
                   !.ret = [of |-> "GetAll", addr |-> Len(heap) + 1, changed |-> FALSE]]]
    /\ UNCHANGED <<mu, rs, notLockVars>>

CountBody(g) ==
    /\ gs[g].pc = "body" /\ gs[g].op = "Count"
    /\ gs' = [gs EXCEPT ![g] = [@ EXCEPT !.pc = "return",
                   !.ret = [of |-> "Count", n |-> Cardinality(DOMAIN TheResults)]]]
    /\ UNCHANGED <<mu, heap, rs, notLockVars>>

\* Clear: rs.results = make(...)
ClearBody(g) ==
    /\ gs[g].pc = "body" /\ gs[g].op = "Clear"
    /\ heap' = Append(heap, clearResults(TheResults))
    /\ rs' = [rs EXCEPT !.results = Len(heap) + 1]
    /\ gs' = [gs EXCEPT ![g].pc = "return"]
    /\ UNCHANGED <<mu, notLockVars>>

UpdateTTLBody(g) ==
    /\ gs[g].pc = "body" /\ gs[g].op = "UpdateTTL"
    /\ rs' = [rs EXCEPT !.ttl = gs[g].ttl]
    /\ gs' = [gs EXCEPT ![g].pc = "return"]
    /\ UNCHANGED <<mu, heap, notLockVars>>

\* the return of a method with the deferred Unlock or RUnlock; a goroutine
\* started by Store ends with the return of its Delete
Return(g) ==
    /\ gs[g].pc = "return"
    /\ mu' = IF gs[g].op \in WriteOps
             THEN [mu EXCEPT !.writer = IF @ = g THEN 0 ELSE @]
             ELSE [mu EXCEPT !.readers = @ \ {g}]
    /\ gs' = [gs EXCEPT ![g].pc = IF g \in CacheCallers THEN "idle" ELSE "done"]
    /\ UNCHANGED <<heap, rs, notLockVars>>

\* the started goroutine evaluates rs.ttl, holding no lock, and sleeps
ExpiryRead(g) ==
    /\ gs[g].pc = "sleep"
    /\ gs' = [gs EXCEPT ![g] = [@ EXCEPT !.ttl = rs.ttl, !.pc = "asleep",
                                         !.locked = (mu.writer = g \/ g \in mu.readers)]]
    /\ UNCHANGED <<mu, heap, rs, notLockVars>>

\* time.Sleep is over: the goroutine calls rs.Delete(sessionID)
ExpiryWake(g) ==
    /\ gs[g].pc = "asleep"
    /\ gs' = [gs EXCEPT ![g] = [@ EXCEPT !.op = "Delete", !.pc = "lock"]]
    /\ UNCHANGED <<mu, heap, rs, notLockVars>>

\* the caller of GetAll adds a key to the map it was given, or removes one
ChangeReturned(g, k, add) ==
    /\ gs[g].pc = "idle" /\ gs[g].ret.of = "GetAll" /\ ~gs[g].ret.changed
    /\ heap' = [heap EXCEPT ![gs[g].ret.addr] = IF add THEN Put(@, k, "mine") ELSE Remove(@, k)]
    /\ gs' = [gs EXCEPT ![g].ret.changed = TRUE]
    /\ UNCHANGED <<mu, rs, notLockVars>>

NextLock ==
    \/ \E g \in CacheCallers, id \in LockIDs, r \in LockResults : Call(g, "Store", id, r, 0)
    \/ \E g \in CacheCallers, id \in LockIDs : Call(g, "Get", id, "nil", 0)
    \/ \E g \in CacheCallers, id \in LockIDs : Call(g, "Delete", id, "nil", 0)
    \/ \E g \in CacheCallers : Call(g, "GetAll", "", "nil", 0)
    \/ \E g \in CacheCallers : Call(g, "Count", "", "nil", 0)
    \/ \E g \in CacheCallers : Call(g, "Clear", "", "nil", 0)
    \/ \E g \in CacheCallers, t \in TTLs : Call(g, "UpdateTTL", "", "nil", t)
    \/ \E g \in DOMAIN gs : Lock(g)
    \/ \E g \in DOMAIN gs : RLock(g)
    \/ \E g \in DOMAIN gs : StoreBody(g)
    \/ \E g \in DOMAIN gs : GetBody(g)
    \/ \E g \in DOMAIN gs : DeleteBody(g)
    \/ \E g \in DOMAIN gs : GetAllBody(g)
    \/ \E g \in DOMAIN gs : CountBody(g)
    \/ \E g \in DOMAIN gs : ClearBody(g)
    \/ \E g \in DOMAIN gs : UpdateTTLBody(g)
    \/ \E g \in DOMAIN gs : Return(g)
    \/ \E g \in DOMAIN gs : ExpiryRead(g)
    \/ \E g \in DOMAIN gs : ExpiryWake(g)
    \/ \E g \in CacheCallers, k \in LockIDs \cup {"mine"}, add \in BOOLEAN : ChangeReturned(g, k, add)

SpecLock == InitLock /\ [][NextLock]_vars

----------------------------------------------------------------------------
(* Claims about the cache under concurrent callers *)

\* the methods whose body reads or writes the results map
MapWriteOps == {"Store", "Delete", "Clear"}
MapReadOps == {"Get", "GetAll", "Count"}

\* the goroutines between the first statement of such a method and its return
WritersInside == {g \in DOMAIN gs : gs[g].op \in MapWriteOps /\ gs[g].pc \in {"body", "return"}}
ReadersInside == {g \in DOMAIN gs : gs[g].op \in MapReadOps /\ gs[g].pc \in {"body", "return"}}

\* C26: whatever the interleaving of Store, Get, Delete, GetAll, Count, Clear
\* and the deletions of the expiry goroutines, a goroutine that reads the
\* results map holds the read lock and one that writes it holds the write
\* lock; no two writers are inside at once, and no reader while a writer is
C26_MapAccessUnderLock ==
    /\ \A g \in WritersInside : mu.writer = g /\ mu.readers = {}
    /\ \A g \in ReadersInside : g \in mu.readers /\ mu.writer = 0
    /\ Cardinality(WritersInside) <= 1
    /\ (WritersInside # {} => ReadersInside = {})

\* Get and GetAll are inside together while the expiry goroutine of an
\* earlier Store waits for the write lock
C26_Witness ==
    /\ gs[1].op = "Get" /\ gs[1].pc = "body"
    /\ gs[2].op = "GetAll" /\ gs[2].pc = "body"
    /\ mu.readers = {1, 2}
    /\ \E g \in DOMAIN gs \ CacheCallers : gs[g].op = "Delete" /\ gs[g].pc = "lock"

\* the callers holding a map GetAll returned to them
Holders == {g \in CacheCallers : gs[g].ret.of = "GetAll"}

\* what Get and Count report is read from the struct and the map it refers to
CacheUntouched == rs' = rs /\ heap'[rs'.results] = heap[rs.results]

\* C27: GetAll returns a snapshot and the reading methods change nothing:
\* the map a caller got from GetAll is changed by no step but that caller's
\* own; a caller adding a key to the map it got, or removing one, changes
\* neither the struct nor the map of the cache, so Get and Count report what
\* they reported before; and no step of Get, GetAll or Count changes them
C27_GetAllIsSnapshot ==
    [][ /\ \A g \in Holders :
               gs'[g].ret = gs[g].ret =>
                   heap'[gs[g].ret.addr] = heap[gs[g].ret.addr]
        /\ \A g \in Holders :
               ~gs[g].ret.changed /\ gs'[g].ret.of = "GetAll" /\ gs'[g].ret.changed =>
                   CacheUntouched
        /\ \A g \in CacheCallers :
               gs[g].op \in ReadOps /\ gs[g].pc # "idle" /\ gs'[g] # gs[g] =>
                   CacheUntouched
      ]_vars

\* caller 1 holds the map GetAll gave it, with s1 in it, after s1 was
\* deleted from the cache
C27_Witness ==
    /\ gs[1].pc = "idle" /\ gs[1].ret.of = "GetAll"
    /\ "s1" \in DOMAIN heap[gs[1].ret.addr]
    /\ "s1" \notin DOMAIN TheResults
    /\ gs[1].ret.addr # rs.results

\* the goroutines Store started
ExpiryGoroutines == DOMAIN gs \ CacheCallers

\* every call so far was made by the caller whose Store started g: the calls
\* came one after the other, so that Store had returned when the caller
\* called UpdateTTL
OnlyOwnerCalled(g) == \A c \in CacheCallers \ {gs[g].owner} : gs[c].calls = 0

\* C28: an entry whose Store returned before UpdateTTL was called expires
\* after the time to live configured when it was stored: the goroutine of
\* that Store sleeps for the value rs.ttl had at the Store, and it reads
\* rs.ttl holding the lock
C28_TTLOfStoreTime ==
    \A g \in ExpiryGoroutines :
        gs[g].pc # "sleep" /\ OnlyOwnerCalled(g) =>
            /\ gs[g].ttl = gs[g].born
            /\ gs[g].locked

----------------------------------------------------------------------------
(* The results cache with its time to live changed while entries are stored *)

\* ResultsStore.UpdateTTL
UpdateTTL(t) ==
    /\ ttl' = t
    /\ UNCHANGED <<engineVars, outerVars, results, now, tasks, getOut, hist, lastStore>>

\* the session id stored, deleted and expiring while the time to live changes
TTLSession == "s1"

NextTTL ==
    \/ \E r \in StoredResults : Store(TTLSession, r)
    \/ Delete(TTLSession)
    \/ Clear
    \/ \E t \in TTLs : UpdateTTL(t)
    \/ \E i \in 1..Len(tasks) : ExpirySleep(i)
    \/ \E i \in 1..Len(tasks) : ExpiryDelete(i)
    \/ Tick

SpecTTL == InitCache /\ [][NextTTL]_vars

\* C29: a Store, and nothing else, starts an expiry goroutine, one for its
\* session id; a started goroutine is changed by its own steps only: it goes
\* to sleep for the time to live it reads, and when that time has passed it
\* deletes what is then stored under its id, the entry of a later Store
\* included; no Store of the same id, Delete, Clear or UpdateTTL stops it or
\* makes it sleep anew; and an absent id becomes present by a Store only
C29_ExpiryNeverCancelled ==
    [][ /\ IF \E r \in StoredResults : Store(TTLSession, r)
           THEN /\ Len(tasks') = Len(tasks) + 1
                /\ tasks'[Len(tasks')] = [id |-> TTLSession, at |-> "start", wake |-> 0]
           ELSE Len(tasks') = Len(tasks)
        /\ \A i \in 1..Len(tasks) :
               tasks'[i] # tasks[i] =>
                   /\ tasks'[i].id = tasks[i].id
                   /\ \/ /\ tasks[i].at = "start"
                         /\ tasks'[i] = [tasks[i] EXCEPT !.at = "sleep", !.wake = now + ttl]
                      \/ /\ tasks[i].at = "sleep" /\ now = tasks[i].wake
                         /\ tasks'[i] = [tasks[i] EXCEPT !.at = "done"]
                         /\ tasks[i].id \notin DOMAIN results'
        /\ \A i \in 1..Len(tasks) : tasks[i].at = "sleep" => now' <= tasks[i].wake
        /\ \A id \in SessionIDs :
               id \notin DOMAIN results /\ id \in DOMAIN results' =>
                   \E r \in StoredResults : Store(id, r)
      ]_vars

\* the goroutine of a first Store has deleted the entry of a second Store,
\* made later, whose own goroutine still sleeps, and for another time than
\* the time to live of its Store, UpdateTTL having been called in between
C29_Witness ==
    /\ Len(tasks) = 2
    /\ tasks[1].at = "done" /\ tasks[2].at = "sleep" /\ tasks[2].wake > now
    /\ lastStore[TTLSession].at > 0
    /\ tasks[2].wake # lastStore[TTLSession].at + lastStore[TTLSession].ttl
    /\ hist[TTLSession].kind = "expired"
    /\ TTLSession \notin DOMAIN results

----------------------------------------------------------------------------
(* Claim about records without identity in a discovery run *)

\* C30: at the end of a run no record of AllCDRs has an empty identity and
\* UniqueCDRs is the number of distinct non-empty identities that arrived,
\* while the records without identity are still in their endpoint's CDRs,
\* RecordCount and CDRsByEndpoint entry, and in TotalCDRs
C30_EmptyIdentityDropped ==
    pc = "done" =>
        /\ \A k \in 1..Len(result.AllCDRs) : GetID(result.AllCDRs[k]) # ""
        /\ result.UniqueCDRs =
               Cardinality({GetID(Arrived[p]) : p \in 1..Len(Arrived)} \ {""})
        /\ \A i \in WithRecords :
               LET er == result.EndpointResults[i] IN
               /\ er.RecordCount = Len(er.CDRs)
               /\ result.CDRsByEndpoint[er.EndpointName] = er.CDRs
        /\ result.TotalCDRs = Len(Arrived)

\* an endpoint brought a record without identity and rec-1: one unique
\* record, two records in the endpoint's count and in the total
C30_Witness ==
    /\ pc = "done"
    /\ Len(result.EndpointResults) = 1
    /\ result.EndpointResults[1].Success
    /\ IDs(result.EndpointResults[1].CDRs) = <<"", "rec-1">>
    /\ result.EndpointResults[1].RecordCount = 2
    /\ Len(result.CDRsByEndpoint[result.EndpointResults[1].EndpointName]) = 2
    /\ result.TotalCDRs = 2
    /\ result.UniqueCDRs = 1
    /\ IDs(result.AllCDRs) = <<"rec-1">>

====
